---------------------------- MODULE Spec2Model ----------------------------
(***************************************************************************)
(* Ghost-Diamonds: the consistency layer.                                  *)
(*                                                                         *)
(*  - the leadership lease of a globally-shared collection                 *)
(*    (systems/ghost-positions-persistence.ts,                             *)
(*     systems/ghost-states-persistence.ts), and the leader-gated          *)
(*    publication of that collection;                                      *)
(*  - the robust diamond counter persistence                               *)
(*    (robust-diamond-persistence.ts) and its reconciliation with the      *)
(*    in-memory counter of diamonds/diamonds.ts.                           *)
(*                                                                         *)
(* Time.  The code stores wall-clock timestamps and only ever reads them   *)
(* back through a difference Date.now() - t.  The model stores that        *)
(* difference (the age of the timestamp) instead of t: a fresh timestamp   *)
(* has age 0, Tick makes every age TickMs older, and an age saturates at   *)
(* the largest threshold the code compares it with.                        *)
(***************************************************************************)
EXTENDS Integers, Sequences, FiniteSets, TLC

\* ------------------------------------------------------------------------
\* Bounds of the model
\* ------------------------------------------------------------------------
TickMs == 5000           \* wall-clock time advances in steps of TickMs
MaxFlightTicks == 1      \* a token PUT is answered within this many ticks
MaxDiamonds == 2         \* diamond counts range over 0..MaxDiamonds
MaxQueue == 2            \* failedSavesQueue holds at most MaxQueue entries
MaxOutages == 1          \* whole-backend outages in one behaviour

\* ------------------------------------------------------------------------
\* Program constants
\* ------------------------------------------------------------------------
LEADER_TIMEOUT == 30000  \* ghost-positions-persistence.ts:11
RENEW_INTERVAL == 5000   \* ghost-positions-persistence.ts:214
BATCH_SIZE == 50         \* ghost-positions-persistence.ts:10
MAX_RETRY_ATTEMPTS == 3  \* robust-diamond-persistence.ts (README.md:367)
RETRY_DELAY == 5000      \* retryDelay, processFailedSavesQueue (README.md:772)
WRITE_TIMEOUT == 10000   \* robust-diamond-persistence.ts (README.md:364)

\* Two independent client processes sharing the store: the claims about the
\* lease are about an incumbent and a challenger.
Procs == {1, 2}

\* The two modules that hold a lease: each has its own token, its own
\* isLeader flag and its own save function; a behaviour models one of them.
Modules == {"positions", "states"}

\* Lengths of the array handed to saveGhostPositions / saveGhostStates.
EntityCounts == {0, 50, 120}

\* Outcomes of one fetch(): HTTP success, an HTTP error status, or a
\* rejected promise (network error).
Responses == {"ok", "notok", "throw"}

VARIABLES
  module,          \* which persistence module this behaviour is about
  token,           \* the stored leadership token (/ghostSaveLeader.json)
  isLeader,        \* isLeader, per process
  leaderCheckAge,  \* Date.now() - lastLeaderCheckTime, per process
  acq,             \* the becomeLeader() call in progress, per process
  becomeResult,    \* the last return of a becomeLeader() call: who, what
  ren,             \* the renewal PUT in flight, per process
  sav,             \* the save call in progress, per process
  saveResult       \* how the last save call ended

leaseVars == <<module, token, isLeader, leaderCheckAge, acq, becomeResult,
               ren, sav, saveResult>>

VARIABLES
  store,               \* diamonds held by each remote replica (0: no record)
  localDiamondStorage, \* diamonds in the local fallback (0: no record)
  down,                \* the replicas that currently answer with an error
  outages,             \* whole-backend outages so far
  writeMutex,          \* writeMutex
  calls,               \* the savePlayerDiamondsRobust calls in progress
  failedSavesQueue,    \* failedSavesQueue
  isProcessingQueue,   \* isProcessingQueue
  procIdx,             \* index i of the entry processFailedSavesQueue awaits
  procAge,             \* Date.now() - now, now as captured by that run
  timerArmed,          \* a setTimeout(processFailedSavesQueue, 5000) is set
  timerDue,            \* ... and its 5000 ms have passed
  written,             \* history: the value each caller last passed to write
  overlapped,          \* history: two caller writes were in progress at once
  maxReturned,         \* history: the largest value of a write that returned
  lastRetry,           \* history: value and outcome of the last queue retry
  aborted,             \* history: the writes of each call that teardown aborted
  writeResult          \* what savePlayerDiamondsRobust last returned to each caller

writeVars == <<store, localDiamondStorage, down, outages, writeMutex, calls,
               failedSavesQueue, isProcessingQueue, procIdx, procAge,
               timerArmed, timerDue, written, overlapped, maxReturned,
               lastRetry, aborted, writeResult>>

VARIABLES
  diamondsCollected,   \* diamondsCollected (diamonds.ts)
  verify,              \* the verifyAndCorrectDiamondCount call in progress
  integ,               \* the verifyDiamondIntegrity call in progress
  initPhase            \* where initDiamondsForPlayer is

counterVars == <<diamondsCollected, verify, integ, initPhase>>

VARIABLES
  primaryOf,           \* the savePlayerDiamondsPrimary call of each subject
  acquired,            \* what acquireWriteMutex last returned for each subject
  lockTimers,          \* ages of the pending force-release timers
  rb                   \* a retryWithBackoff call with its parameters

VARIABLES
  ld                   \* the loadPlayerDiamondsRobust call in progress

loadVars == <<ld>>

VARIABLES
  patched              \* history: positions.length and the index ranges of
                       \* the PATCHes sent by each process's last save call

batchVars == <<patched>>

VARIABLES
  PlayerUI,            \* PlayerUI.lives and PlayerUI.regenQueue (player.ts)
  remoteLives,         \* the record stored at players/<address>/lives.json
  livesNow,            \* Date.now(), counted in regeneration intervals
  initResult           \* how PlayerUI.init ended in this session

playerVars == <<PlayerUI, remoteLives, livesNow, initResult>>

VARIABLES
  now,                 \* Date.now(), in seconds
  diamondStates,       \* diamonds.ts: the phase of each diamond slot
  diamondTimers,       \* diamonds.ts: the seconds each slot has spent in its phase
  playerDiamondStates, \* diamond-states-persistence: the documents held in memory
  remoteDiamonds,      \* the documents stored under players/<id>/diamonds
  session,             \* how far this session's start-up has come
  isCarryingDiamond,   \* diamond-carrying: the player has a diamond attached
  droppedDiamonds,     \* simple-dropped-diamonds: the dropped entity of each slot
  respawnTimeouts,     \* the seconds left of each slot's respawnDiamond timeout
  death,               \* death.ts and ghosts.ts: flags and timers of a death
  playerAt,            \* the place the player stands at
  puts,                \* history: the PUTs of the last step that saved a document
  putFailures          \* history: the steps whose PUTs did not reach the store

diamondVars ==
  <<now, diamondStates, diamondTimers, playerDiamondStates, remoteDiamonds, session,
    isCarryingDiamond, droppedDiamonds, respawnTimeouts, death, playerAt, puts,
    putFailures>>

VARIABLES
  isInitialized,       \* isInitialized of the persistence module, per process
  running,             \* the processes that have not exited
  tokenRead            \* history: the answer to each process's last GET of the token

electVars == <<isInitialized, running, tokenRead>>

VARIABLES
  putsInFlight,        \* the PUTs of saveDiamondState that have not settled
  loadCall             \* the GET of the player's documents in progress

cacheVars == <<putsInFlight, loadCall>>

VARIABLES
  validation           \* history: the counter save of the last validateDiamond()

chestVars == <<validation>>

lateVars == <<electVars, cacheVars, chestVars>>

gameVars == <<loadVars, batchVars, playerVars, diamondVars, lateVars>>

\* What the game-side functions never touch.
baseVars == <<leaseVars, writeVars, counterVars, primaryOf, acquired, lockTimers, rb>>

utilVars == <<primaryOf, acquired, lockTimers, rb, gameVars>>

vars == <<leaseVars, writeVars, counterVars, utilVars>>

\* ------------------------------------------------------------------------
\* Ages
\* ------------------------------------------------------------------------
\* The age of a token timestamp saturates at LEADER_TIMEOUT: the code only
\* asks whether it is < LEADER_TIMEOUT.
OlderToken(a) == IF a + TickMs >= LEADER_TIMEOUT THEN LEADER_TIMEOUT ELSE a + TickMs

\* now - lastLeaderCheckTime saturates just above RENEW_INTERVAL: the code
\* only asks whether it is > 5000.
CheckCap == RENEW_INTERVAL + TickMs
OlderCheck(a) == IF a + TickMs >= CheckCap THEN CheckCap ELSE a + TickMs

\* ------------------------------------------------------------------------
\* The leadership token
\* ------------------------------------------------------------------------
\* present = FALSE is the JSON null the store answers for a missing path.
\* writer is the process whose PUT stored the token; the code stores
\* leaderId: Date.now() and never reads it back.
NoToken == [present |-> FALSE, age |-> 0, writer |-> 0]
Token(a, p) == [present |-> TRUE, age |-> a, writer |-> p]

AcqIdle == [pc |-> "idle", putAge |-> 0, saw |-> "none"]
RenIdle == [pc |-> "idle", putAge |-> 0]
SavIdle == [pc |-> "idle", n |-> 0, batchIndex |-> 0]

\* if (currentLeader) { if (leaderAge < LEADER_TIMEOUT) return false; ... }
StillLeader_AgeLeq(currentLeader) ==
  currentLeader.present /\ currentLeader.age <= LEADER_TIMEOUT

StillLeader(currentLeader) ==
  currentLeader.present /\ currentLeader.age < LEADER_TIMEOUT

\* What the call has seen when it goes on to the PUT: no token (null), or a
\* token it logs as 'Current leader expired, taking over...'.
Saw(currentLeader) == IF currentLeader.present THEN "expired" ELSE "null"

\* fetch(...).then(r => r.ok ? r.json() : null)
ReadToken(resp) == IF resp = "ok" THEN token ELSE NoToken

\* ------------------------------------------------------------------------
\* becomeLeader()
\* ------------------------------------------------------------------------
NothingReturned == [proc |-> 0, result |-> "none"]
Returned(p, r) == [proc |-> p, result |-> r]

\* The call starts: the GET of the token is sent.  (BecomeLeaderCallFrom is
\* the call made by a function that changes its own module's state too.)
BecomeLeaderCallFrom(p) ==
  /\ acq[p].pc = "idle"
  /\ acq' = [acq EXCEPT ![p] = [pc |-> "get", putAge |-> 0, saw |-> "none"]]
  /\ UNCHANGED <<module, token, isLeader, leaderCheckAge, becomeResult, ren, sav, saveResult>>
  /\ UNCHANGED <<writeVars, counterVars, primaryOf, acquired, lockTimers, rb,
                 loadVars, batchVars, playerVars, diamondVars>>

BecomeLeaderCall(p) ==
  /\ BecomeLeaderCallFrom(p)
  /\ UNCHANGED lateVars

\* The GET settles.  A rejected fetch goes to the catch block (return
\* false); otherwise the token (null on a non-ok status) is tested and the
\* PUT of a fresh token {leaderId: Date.now(), timestamp: Date.now()} is sent.
BecomeLeaderGetDoneFrom(p, resp) ==
  /\ acq[p].pc = "get"
  /\ IF resp = "throw" \/ StillLeader(ReadToken(resp))
       THEN /\ acq' = [acq EXCEPT ![p] = AcqIdle]
            /\ becomeResult' = Returned(p, IF resp = "throw" THEN "error" ELSE "stillLeader")
       ELSE /\ acq' = [acq EXCEPT ![p] = [pc |-> "put", putAge |-> 0,
                                             saw |-> Saw(ReadToken(resp))]]
            /\ UNCHANGED becomeResult
  /\ UNCHANGED <<module, token, isLeader, leaderCheckAge, ren, sav, saveResult>>
  /\ UNCHANGED <<writeVars, counterVars, primaryOf, acquired, lockTimers, rb,
                 loadVars, batchVars, playerVars, diamondVars>>

BecomeLeaderGetDone(p, resp) ==
  /\ BecomeLeaderGetDoneFrom(p, resp)
  /\ UNCHANGED lateVars

\* The same step, with the answer to the GET kept as history.
BecomeLeaderGetDoneSeen(p, resp) ==
  /\ BecomeLeaderGetDoneFrom(p, resp)
  /\ tokenRead' = [tokenRead EXCEPT ![p] = resp]
  /\ UNCHANGED <<isInitialized, running, cacheVars, chestVars>>

\* The PUT settles.  On success the store holds the token sent (whole
\* document replace), isLeader = true and lastLeaderCheckTime = Date.now().
\* becomeResult is the caller, the value returned and the path it took:
\*   "true"        true, no token had been stored
\*   "tookOver"    true, after 'Current leader expired, taking over...'
\*   "stillLeader" false, 'Another player is still the leader'
\*   "rejected"    false, the PUT was answered with a non-ok status
\*   "error"       false, from the catch block
BecomeLeaderPutDone(p, resp) ==
  /\ acq[p].pc = "put"
  /\ acq' = [acq EXCEPT ![p] = AcqIdle]
  /\ IF resp = "ok"
       THEN /\ token' = Token(acq[p].putAge, p)
            /\ isLeader' = [isLeader EXCEPT ![p] = TRUE]
            /\ leaderCheckAge' = [leaderCheckAge EXCEPT ![p] = 0]
            /\ becomeResult' = Returned(p, IF acq[p].saw = "expired" THEN "tookOver" ELSE "true")
       ELSE /\ becomeResult' = Returned(p, IF resp = "throw" THEN "error" ELSE "rejected")
            /\ UNCHANGED <<token, isLeader, leaderCheckAge>>
  /\ UNCHANGED <<module, ren, sav, saveResult>>
  /\ UNCHANGED <<writeVars, counterVars, utilVars>>

\* ------------------------------------------------------------------------
\* checkAndRenewLeadership()
\* ------------------------------------------------------------------------
\* if (!isLeader) return;  if (now - lastLeaderCheckTime > 5000) { ... }
RenewDue(p) == isLeader[p] /\ leaderCheckAge[p] > RENEW_INTERVAL

\* A call that passes both tests sets lastLeaderCheckTime = now and sends
\* the PUT of {leaderId: Date.now(), timestamp: now}.  (A call that does not
\* changes nothing.)
CheckAndRenewLeadership(p) ==
  /\ ren[p].pc = "idle"
  /\ RenewDue(p)
  /\ leaderCheckAge' = [leaderCheckAge EXCEPT ![p] = 0]
  /\ ren' = [ren EXCEPT ![p] = [pc |-> "put", putAge |-> 0]]
  /\ UNCHANGED <<module, token, isLeader, acq, becomeResult, sav, saveResult>>
  /\ UNCHANGED <<writeVars, counterVars, utilVars>>

\* The renewal PUT settles.  The code awaits it and ignores the response; a
\* rejection is caught and logged.  isLeader is not touched either way.
RenewPutDone(p, resp) ==
  /\ ren[p].pc = "put"
  /\ ren' = [ren EXCEPT ![p] = RenIdle]
  /\ token' = IF resp = "ok" THEN Token(ren[p].putAge, p) ELSE token
  /\ UNCHANGED <<module, isLeader, leaderCheckAge, acq, becomeResult, sav, saveResult>>
  /\ UNCHANGED <<writeVars, counterVars, utilVars>>

\* ------------------------------------------------------------------------
\* saveGhostPositions(positions) / saveGhostStates(states)
\* ------------------------------------------------------------------------
\* if (!isLeader) { return; }
MaySave_NoGuard(p) == TRUE

MaySave(p) == isLeader[p]

NumBatches_Floor(n) == n \div BATCH_SIZE

\* Math.ceil(positions.length / BATCH_SIZE)
NumBatches(n) == (n + BATCH_SIZE - 1) \div BATCH_SIZE

Min2(a, b) == IF a <= b THEN a ELSE b

\* The indices i = start .. end - 1 that batch number batchIndex holds.
BatchData(n, batchIndex) ==
  LET start == batchIndex * BATCH_SIZE
      end == Min2(start + BATCH_SIZE, n)
  IN [first |-> start, last |-> end - 1]

\* The call starts.  A follower returns at once.  The positions module sends
\* the PATCH of its first batch (none when the array is empty: the loop body
\* never runs); the states module sends one PUT of the whole collection.
SaveCall(p, n) ==
  /\ sav[p].pc = "idle"
  /\ IF ~MaySave(p)
       THEN /\ saveResult' = [saveResult EXCEPT ![p] = "skipped"]
            /\ UNCHANGED sav
       ELSE IF module = "positions"
         THEN IF NumBatches(n) = 0
                THEN /\ saveResult' = [saveResult EXCEPT ![p] = "saved"]
                     /\ UNCHANGED sav
                ELSE /\ sav' = [sav EXCEPT ![p] = [pc |-> "patch", n |-> n, batchIndex |-> 0]]
                     /\ saveResult' = [saveResult EXCEPT ![p] = "pending"]
         ELSE /\ sav' = [sav EXCEPT ![p] = [pc |-> "put", n |-> n, batchIndex |-> 0]]
              /\ saveResult' = [saveResult EXCEPT ![p] = "pending"]
  /\ patched' = [patched EXCEPT ![p] =
                   [n |-> n,
                    ranges |-> IF MaySave(p) /\ module = "positions" /\ NumBatches(n) > 0
                                 THEN <<BatchData(n, 0)>> ELSE <<>>]]
  /\ UNCHANGED <<module, token, isLeader, leaderCheckAge, acq, becomeResult, ren>>
  /\ UNCHANGED <<writeVars, counterVars, primaryOf, acquired, lockTimers, rb, loadVars, playerVars, diamondVars, lateVars>>

\* The PATCH of one batch settles.  A rejection leaves the loop through the
\* catch block; a non-ok status is logged and the loop continues; either
\* way the next batch, if there is one, is sent next.
SavePatchDone(p, resp) ==
  /\ sav[p].pc = "patch"
  /\ IF resp = "throw"
       THEN /\ sav' = [sav EXCEPT ![p] = SavIdle]
            /\ saveResult' = [saveResult EXCEPT ![p] = "error"]
       ELSE IF sav[p].batchIndex + 1 < NumBatches(sav[p].n)
         THEN /\ sav' = [sav EXCEPT ![p].batchIndex = @ + 1]
              /\ UNCHANGED saveResult
         ELSE /\ sav' = [sav EXCEPT ![p] = SavIdle]
              /\ saveResult' = [saveResult EXCEPT ![p] = "saved"]
  /\ patched' = IF resp # "throw" /\ sav[p].batchIndex + 1 < NumBatches(sav[p].n)
                  THEN [patched EXCEPT ![p].ranges =
                          Append(@, BatchData(sav[p].n, sav[p].batchIndex + 1))]
                  ELSE patched
  /\ UNCHANGED <<module, token, isLeader, leaderCheckAge, acq, becomeResult, ren>>
  /\ UNCHANGED <<writeVars, counterVars, primaryOf, acquired, lockTimers, rb, loadVars, playerVars, diamondVars, lateVars>>

\* The PUT of the whole states collection settles.
SavePutDone(p, resp) ==
  /\ sav[p].pc = "put"
  /\ sav' = [sav EXCEPT ![p] = SavIdle]
  /\ saveResult' = [saveResult EXCEPT ![p] =
                      IF resp = "ok" THEN "saved" ELSE "error"]
  /\ UNCHANGED <<module, token, isLeader, leaderCheckAge, acq, becomeResult, ren>>
  /\ UNCHANGED <<writeVars, counterVars, utilVars>>

\* ------------------------------------------------------------------------
\* Time
\* ------------------------------------------------------------------------
OlderCall(c) == IF c.pc = "put" THEN [c EXCEPT !.putAge = OlderToken(c.putAge)] ELSE c

\* A token PUT still in flight is at most MaxFlightTicks ticks old.
InFlightLongEnough(c) == c.pc = "put" /\ c.putAge + TickMs > MaxFlightTicks * TickMs

Tick ==
  /\ \A p \in Procs : ~InFlightLongEnough(acq[p]) /\ ~InFlightLongEnough(ren[p])
  /\ token' = IF token.present THEN [token EXCEPT !.age = OlderToken(token.age)] ELSE token
  /\ leaderCheckAge' = [p \in Procs |-> OlderCheck(leaderCheckAge[p])]
  /\ acq' = [p \in Procs |-> OlderCall(acq[p])]
  /\ ren' = [p \in Procs |-> OlderCall(ren[p])]
  /\ UNCHANGED <<module, isLeader, becomeResult, sav, saveResult>>
  /\ UNCHANGED <<writeVars, counterVars, utilVars>>

\* ========================================================================
\* Robust diamond persistence (robust-diamond-persistence.ts, one player)
\* ========================================================================
Replicas == {"primary", "backup", "global"}

Callers == {"u1", "u2"}

Slots == Callers \cup {"queue", "verify", "integrity", "init"}

Diamonds == 0..MaxDiamonds

Max2(a, b) == IF a >= b THEN a ELSE b

\* A savePlayerDiamondsRobust call: the value, the remote writes not settled
\* yet, the attempt retryWithBackoff is at for the primary write, and whether
\* successCount is above 0.  Phase "limit" is the await of limitPlayerBackups.
CallIdle == [phase |-> "idle", diamonds |-> 0, pending |-> {}, attempt |-> 0, anyOk |-> FALSE]

\* The call up to Promise.allSettled: the primary write is sent only when
\* acquireWriteMutex succeeds, the two backup writes are always sent.
StartCall(v, mutexAcquired) ==
  [phase |-> "writes", diamonds |-> v,
   pending |-> IF mutexAcquired THEN Replicas ELSE Replicas \ {"primary"},
   attempt |-> IF mutexAcquired THEN 1 ELSE 0,
   anyOk |-> FALSE]

InFlight(s) == calls[s].phase # "idle"

\* retryWithBackoff repeats a failed primary write up to MAX_RETRY_ATTEMPTS times.
RetriesPrimary(c, r, ok) == ~ok /\ r = "primary" /\ c.attempt < MAX_RETRY_ATTEMPTS

\* One remote write of call s settles: accepted, or refused while the
\* replica is down.  The primary write releases the mutex when it is over.
SettleWrite(s, r) ==
  /\ calls[s].phase = "writes"
  /\ r \in calls[s].pending
  /\ LET c == calls[s]
         ok == r \notin down
         again == RetriesPrimary(c, r, ok)
         pend == IF again THEN c.pending ELSE c.pending \ {r}
     IN /\ store' = IF ok THEN [store EXCEPT ![r] = c.diamonds] ELSE store
        /\ writeMutex' = IF r = "primary" /\ ~again THEN FALSE ELSE writeMutex
        /\ calls' = [calls EXCEPT ![s] =
                       [c EXCEPT !.pending = pend,
                                 !.attempt = IF again THEN @ + 1
                                             ELSE IF r = "primary" THEN 0 ELSE @,
                                 !.anyOk = @ \/ ok,
                                 !.phase = IF pend = {} THEN "limit" ELSE "writes"]]
  /\ UNCHANGED <<localDiamondStorage, down, outages, failedSavesQueue,
                 isProcessingQueue, procIdx, procAge, timerArmed, timerDue,
                 written, overlapped, maxReturned, lastRetry, aborted, writeResult>>
  /\ UNCHANGED <<leaseVars, counterVars, utilVars>>

\* An entry of failedSavesQueue.  age is Date.now() - lastAttempt, capped at
\* RETRY_DELAY; due records the test now - lastAttempt >= retryDelay against
\* the now that the running processFailedSavesQueue captured.
NoRetry == [diamonds |-> 0, ok |-> FALSE]

NewEntry(v) == [diamonds |-> v, attempts |-> 0, age |-> 0, due |-> FALSE]

RECURSIVE MarkDue(_)
MarkDue(q) ==
  IF q = <<>> THEN <<>>
  ELSE <<[Head(q) EXCEPT !.due = (Head(q).age >= RETRY_DELAY)]>> \o MarkDue(Tail(q))

RECURSIVE ClearDue(_)
ClearDue(q) ==
  IF q = <<>> THEN <<>>
  ELSE <<[Head(q) EXCEPT !.due = FALSE]>> \o ClearDue(Tail(q))

Splice(q, i) == SubSeq(q, 1, i - 1) \o SubSeq(q, i + 1, Len(q))

\* failedSave.attempts++; failedSave.lastAttempt = now, now being pa ms ago.
Attempted(e, pa) == [e EXCEPT !.attempts = @ + 1, !.age = pa, !.due = FALSE]

RECURSIVE NextDue(_, _)
NextDue(q, i) == IF i = 0 THEN 0 ELSE IF q[i].due THEN i ELSE NextDue(q, i - 1)

\* After its loop processFailedSavesQueue sets the timer again when entries remain.
ArmsTimer_Never(q) == FALSE

ArmsTimer(q) == Len(q) > 0

\* The loop of processFailedSavesQueue from index i down to its next await
\* (the retry of a due entry) or to its end.
LoopFrom(q, i, pa, mutex) ==
  LET j == NextDue(q, i) IN
  IF j = 0
  THEN [queue |-> ClearDue(q), idx |-> 0, processing |-> FALSE,
        call |-> CallIdle, mutex |-> mutex, arm |-> ArmsTimer(q)]
  ELSE [queue |-> SubSeq(q, 1, j - 1) \o <<Attempted(q[j], pa)>> \o SubSeq(q, j + 1, Len(q)),
        idx |-> j, processing |-> TRUE,
        call |-> StartCall(q[j].diamonds, ~mutex), mutex |-> TRUE, arm |-> FALSE]

\* processFailedSavesQueue called while not running and the queue not empty.
ProcessFailedSavesQueue(q, mutex) == LoopFrom(MarkDue(q), Len(q), 0, mutex)

\* The end of savePlayerDiamondsRobust: the local fallback is written, and a
\* call none of whose remote writes succeeded is queued.
QueueAfter(c, q) == IF c.anyOk THEN q ELSE Append(q, NewEntry(c.diamonds))

\* savePlayerDiamondsRobust ends with `return true`, whatever the remote
\* writes did.
RobustResult_AnyOk(c) == c.anyOk

RobustResult(c) == TRUE

\* savePlayerDiamondsRobust returns to the caller of slot s: the tail of the
\* call, with processFailedSavesQueue run up to its first await when the
\* call was queued and no run is in progress.  A caller that goes straight
\* on to save again starts its next call with value nextv (NoValue: none).
NoValue == 0 - 1

Returns(s, nextv) ==
  LET c == calls[s]
      q == QueueAfter(c, failedSavesQueue)
      r == ProcessFailedSavesQueue(q, writeMutex)
      starts == ~c.anyOk /\ ~isProcessingQueue
      mutex == IF starts THEN r.mutex ELSE writeMutex
      next == IF nextv = NoValue THEN CallIdle ELSE StartCall(nextv, ~mutex)
  IN /\ localDiamondStorage' = c.diamonds
     /\ writeMutex' = (mutex \/ nextv # NoValue)
     /\ IF starts
        THEN /\ failedSavesQueue' = r.queue
             /\ isProcessingQueue' = r.processing
             /\ procIdx' = r.idx
             /\ procAge' = 0
             /\ timerArmed' = (timerArmed \/ r.arm)
             /\ calls' = [calls EXCEPT ![s] = next, !["queue"] = r.call]
        ELSE /\ failedSavesQueue' = q
             /\ calls' = [calls EXCEPT ![s] = next]
             /\ UNCHANGED <<isProcessingQueue, procIdx, procAge, timerArmed>>

QueueHasRoom == Len(failedSavesQueue) + Cardinality({s \in Callers : InFlight(s)}) < MaxQueue

\* A caller writes v; in this scenario each of the two callers writes once.
RaceWrite(s, v) ==
  /\ s \in Callers /\ v \in 1..MaxDiamonds
  /\ written[s] = 0
  /\ QueueHasRoom
  /\ calls' = [calls EXCEPT ![s] = StartCall(v, ~writeMutex)]
  /\ writeMutex' = TRUE
  /\ written' = [written EXCEPT ![s] = v]
  /\ overlapped' = (overlapped \/ \E t \in Callers \ {s} : InFlight(t))
  /\ UNCHANGED <<store, localDiamondStorage, down, outages, failedSavesQueue,
                 isProcessingQueue, procIdx, procAge, timerArmed, timerDue,
                 maxReturned, lastRetry, aborted, writeResult>>
  /\ UNCHANGED <<leaseVars, counterVars, utilVars>>

\* The one caller writes again and again, never a value below its last one.
UserWrite(v) ==
  /\ v \in 1..MaxDiamonds
  /\ ~InFlight("u1")
  /\ v >= written["u1"]
  /\ QueueHasRoom
  /\ calls' = [calls EXCEPT !["u1"] = StartCall(v, ~writeMutex)]
  /\ writeMutex' = TRUE
  /\ written' = [written EXCEPT !["u1"] = v]
  /\ UNCHANGED <<store, localDiamondStorage, down, outages, failedSavesQueue,
                 isProcessingQueue, procIdx, procAge, timerArmed, timerDue,
                 overlapped, maxReturned, lastRetry, aborted, writeResult>>
  /\ UNCHANGED <<leaseVars, counterVars, utilVars>>

UserWriteReturns(s) ==
  /\ s \in Callers
  /\ calls[s].phase = "limit"
  /\ Returns(s, NoValue)
  /\ maxReturned' = Max2(maxReturned, calls[s].diamonds)
  /\ writeResult' = [writeResult EXCEPT ![s] = IF RobustResult(calls[s]) THEN "true" ELSE "false"]
  /\ aborted' = [aborted EXCEPT ![s] = {}]
  /\ UNCHANGED <<store, down, outages, timerDue, written, overlapped,
                 lastRetry>>
  /\ UNCHANGED <<leaseVars, counterVars, utilVars>>

\* The retry that processFailedSavesQueue awaits returns (always true): the
\* retried entry is spliced out, and the loop goes on below it.
QueueRetryReturns ==
  /\ isProcessingQueue
  /\ calls["queue"].phase = "limit"
  /\ LET c == calls["queue"]
         q1 == QueueAfter(c, failedSavesQueue)
         q == IF RobustResult(c) \/ q1[procIdx].attempts >= MAX_RETRY_ATTEMPTS
              THEN Splice(q1, procIdx) ELSE q1
         r == LoopFrom(q, procIdx - 1, procAge, writeMutex)
     IN /\ localDiamondStorage' = c.diamonds
        /\ failedSavesQueue' = r.queue
        /\ isProcessingQueue' = r.processing
        /\ procIdx' = r.idx
        /\ procAge' = IF r.processing THEN procAge ELSE 0
        /\ writeMutex' = r.mutex
        /\ timerArmed' = (timerArmed \/ r.arm)
        /\ calls' = [calls EXCEPT !["queue"] = r.call]
        /\ lastRetry' = [diamonds |-> c.diamonds, ok |-> c.anyOk]
        /\ aborted' = [aborted EXCEPT !["queue"] = {}]
  /\ UNCHANGED <<store, down, outages, timerDue, written, overlapped,
                 maxReturned, writeResult>>
  /\ UNCHANGED <<leaseVars, counterVars, utilVars>>

\* The timer set by processFailedSavesQueue fires.
TimerFires ==
  /\ timerDue
  /\ timerDue' = FALSE
  /\ IF ~isProcessingQueue /\ Len(failedSavesQueue) > 0
     THEN LET r == ProcessFailedSavesQueue(failedSavesQueue, writeMutex)
          IN /\ failedSavesQueue' = r.queue
             /\ isProcessingQueue' = r.processing
             /\ procIdx' = r.idx
             /\ procAge' = 0
             /\ writeMutex' = r.mutex
             /\ timerArmed' = (timerArmed \/ r.arm)
             /\ calls' = [calls EXCEPT !["queue"] = r.call]
     ELSE UNCHANGED <<failedSavesQueue, isProcessingQueue, procIdx, procAge,
                      writeMutex, timerArmed, calls>>
  /\ UNCHANGED <<store, localDiamondStorage, down, outages, written,
                 overlapped, maxReturned, lastRetry, aborted, writeResult>>
  /\ UNCHANGED <<leaseVars, counterVars, utilVars>>

\* RETRY_DELAY ms pass.
RECURSIVE OlderQueue(_)
OlderQueue(q) ==
  IF q = <<>> THEN <<>>
  ELSE <<[Head(q) EXCEPT !.age = RETRY_DELAY]>> \o OlderQueue(Tail(q))

RetryDelayPasses ==
  /\ failedSavesQueue' = OlderQueue(failedSavesQueue)
  /\ procAge' = IF isProcessingQueue THEN RETRY_DELAY ELSE procAge
  /\ timerDue' = (timerDue \/ timerArmed)
  /\ timerArmed' = FALSE
  /\ UNCHANGED <<store, localDiamondStorage, down, outages, writeMutex, calls,
                 isProcessingQueue, procIdx, written, overlapped, maxReturned,
                 lastRetry, aborted, writeResult>>
  /\ UNCHANGED <<leaseVars, counterVars, utilVars>>

\* The backend: one replica fails or recovers, or all of them do.
ReplicaFails(r) ==
  /\ r \notin down
  /\ down' = down \cup {r}
  /\ UNCHANGED <<store, localDiamondStorage, outages, writeMutex, calls,
                 failedSavesQueue, isProcessingQueue, procIdx, procAge,
                 timerArmed, timerDue, written, overlapped, maxReturned,
                 lastRetry, aborted, writeResult>>
  /\ UNCHANGED <<leaseVars, counterVars, utilVars>>

ReplicaRecovers(r) ==
  /\ r \in down
  /\ down' = down \ {r}
  /\ UNCHANGED <<store, localDiamondStorage, outages, writeMutex, calls,
                 failedSavesQueue, isProcessingQueue, procIdx, procAge,
                 timerArmed, timerDue, written, overlapped, maxReturned,
                 lastRetry, aborted, writeResult>>
  /\ UNCHANGED <<leaseVars, counterVars, utilVars>>

Outage ==
  /\ down = {}
  /\ outages < MaxOutages
  /\ down' = Replicas
  /\ outages' = outages + 1
  /\ UNCHANGED <<store, localDiamondStorage, writeMutex, calls,
                 failedSavesQueue, isProcessingQueue, procIdx, procAge,
                 timerArmed, timerDue, written, overlapped, maxReturned,
                 lastRetry, aborted, writeResult>>
  /\ UNCHANGED <<leaseVars, counterVars, utilVars>>

OutageEnds ==
  /\ down = Replicas
  /\ down' = {}
  /\ UNCHANGED <<store, localDiamondStorage, outages, writeMutex, calls,
                 failedSavesQueue, isProcessingQueue, procIdx, procAge,
                 timerArmed, timerDue, written, overlapped, maxReturned,
                 lastRetry, aborted, writeResult>>
  /\ UNCHANGED <<leaseVars, counterVars, utilVars>>

\* loadPlayerDiamondsRobust on a quiet backend: the largest positive value of
\* the reachable replicas and the local fallback, 0 when there is none.
RECURSIVE MaxOf(_)
MaxOf(S) == IF S = {} THEN 0 ELSE LET x == CHOOSE x \in S : TRUE IN Max2(x, MaxOf(S \ {x}))

ReconciledRead == MaxOf({store[r] : r \in Replicas \ down} \cup {localDiamondStorage})

VerifyIdle == [pc |-> "idle", localCount |-> 0]

IntegIdle == [pc |-> "idle", current |-> 0]

\* The counter at 0, the player initialized, no check in progress.
CounterQuiet ==
  /\ diamondsCollected = 0
  /\ verify = VerifyIdle
  /\ integ = IntegIdle
  /\ initPhase = "done"

Subjects == {"A", "B"}

PrimaryIdle == [pc |-> "idle", age |-> 0]

RbIdle == [pc |-> "idle", maxAttempts |-> 0, baseDelay |-> 0, attempt |-> 0,
           invocations |-> 0, errors |-> <<>>, delays |-> <<>>, result |-> "none"]

\* No primary write, no timer, no retryWithBackoff call.
\* What one source of a load can answer: a rejected promise (fetch or
\* r.json() failed), a non-ok status, JSON null, a record without a
\* diamonds field, or a record with one.
Pending == [kind |-> "pending", diamonds |-> 0]

Outcomes ==
  {[kind |-> k, diamonds |-> 0] : k \in {"rejected", "notok", "null", "nofield"}}
    \cup {[kind |-> "record", diamonds |-> n] : n \in Diamonds}

LdIdle == [pc |-> "idle", sources |-> [r \in Replicas |-> Pending], result |-> NoValue]

NoPatches == [n |-> 0, ranges |-> <<>>]

\* CONFIG.PLAYER
PLAYER_LIVES == 5

PLAYER_MAX_LIVES == 5

\* LIFE_REGEN_MINUTES * MS_IN_MIN, the unit livesNow is counted in.
LIFE_REGEN == 1

\* No record stored (the GET answers null).
NoRecord == [present |-> FALSE, lives |-> 0, regenQueue |-> <<>>]

\* The PlayerUI object as the module creates it.
PlayerFresh == [lives |-> PLAYER_LIVES, regenQueue |-> <<>>]

PlayerQuiet ==
  /\ PlayerUI = PlayerFresh
  /\ remoteLives = NoRecord
  /\ livesNow = 0
  /\ initResult = "none"

\* Number of diamond slots of the model (DIAMOND_CONFIG.COUNT is 5).
NumDiamonds == 2

DiamondIdx == 0 .. (NumDiamonds - 1)

\* The places of the model: place i is within collection distance of
\* diamond i and outside every safe zone; Center is the central safe zone.
Center == NumDiamonds

Sites == DiamondIdx \cup {Center}

NoSite == 0 - 1

\* Date.now() when the session of the model starts, in seconds.
SessionStart == 292

\* A timestamp field that holds null.
NoTime == 0

\* No document under the key (playerDiamondStates[key] is undefined).
NoDoc ==
  [present |-> FALSE, state |-> "available", collectedBy |-> "nobody",
   spawnPosition |-> "origin", spawnedAt |-> NoTime, dropPosition |-> NoSite,
   droppedAt |-> NoTime]

\* No dropped entity for the slot.
NoDrop == [present |-> FALSE, position |-> NoSite, createdAt |-> NoTime]

NoTimeout == 0 - 1

\* isHandlingDeath, playerInvulnerable and playerHitCooldown as the modules
\* create them, with the timers of the systems a death adds.
DeathNone ==
  [isHandlingDeath |-> FALSE, teleportTimer |-> 0, playerInvulnerable |-> FALSE,
   invulnerabilityTimer |-> 0, playerHitCooldown |-> 0]

\* The module state of the diamond modules as a session creates it.
DiamondsFresh ==
  /\ diamondStates = [i \in DiamondIdx |-> "hidden"]
  /\ diamondTimers = [i \in DiamondIdx |-> 0]
  /\ playerDiamondStates = [i \in DiamondIdx |-> NoDoc]
  /\ session = [phase |-> "start", number |-> 1]
  /\ isCarryingDiamond = FALSE
  /\ droppedDiamonds = [i \in DiamondIdx |-> NoDrop]
  /\ respawnTimeouts = [i \in DiamondIdx |-> NoTimeout]
  /\ death = DeathNone
  /\ playerAt = Center
  /\ puts = <<>>

DiamondQuiet ==
  /\ DiamondsFresh
  /\ now = SessionStart
  /\ remoteDiamonds = [i \in DiamondIdx |-> NoDoc]
  /\ putFailures = 0

\* No GET of the player's documents in progress.
LoadIdle == [pc |-> "idle", kind |-> "none", savedSince |-> {}]

\* No validation yet.
NoValidation == [calls |-> 0, waits |-> 0, saved |-> TRUE]

\* Every process runs, no persistence module has been initialized, no
\* request for a diamond document is in flight.
LateQuiet ==
  /\ isInitialized = [p \in Procs |-> FALSE]
  /\ running = [p \in Procs |-> TRUE]
  /\ tokenRead = [p \in Procs |-> "none"]
  /\ putsInFlight = {}
  /\ loadCall = LoadIdle
  /\ validation = NoValidation

GameQuiet ==
  /\ LateQuiet
  /\ ld = LdIdle
  /\ patched = [p \in Procs |-> NoPatches]
  /\ PlayerQuiet
  /\ DiamondQuiet

UtilQuiet ==
  /\ GameQuiet
  /\ primaryOf = [a \in Subjects |-> PrimaryIdle]
  /\ acquired = [a \in Subjects |-> "none"]
  /\ lockTimers = {}
  /\ rb = RbIdle

\* Nothing stored, nothing in progress.
WriteQuiet ==
  /\ store = [r \in Replicas |-> 0]
  /\ localDiamondStorage = 0
  /\ down = {}
  /\ outages = 0
  /\ writeMutex = FALSE
  /\ calls = [s \in Slots |-> CallIdle]
  /\ failedSavesQueue = <<>>
  /\ isProcessingQueue = FALSE
  /\ procIdx = 0
  /\ procAge = 0
  /\ timerArmed = FALSE
  /\ timerDue = FALSE
  /\ written = [s \in Callers |-> 0]
  /\ overlapped = FALSE
  /\ maxReturned = 0
  /\ lastRetry = NoRetry
  /\ aborted = [s \in Slots |-> {}]
  /\ writeResult = [s \in Callers |-> "none"]

\* ------------------------------------------------------------------------
\* Initial state and the lease specification
\* ------------------------------------------------------------------------
\* Module state after load: isLeader = false, lastLeaderCheckTime = 0 (an
\* age beyond every threshold), nothing in flight, no token stored.
LeaseInit ==
  /\ module = "positions"
  /\ token = NoToken
  /\ isLeader = [p \in Procs |-> FALSE]
  /\ leaderCheckAge = [p \in Procs |-> CheckCap]
  /\ acq = [p \in Procs |-> AcqIdle]
  /\ becomeResult = NothingReturned
  /\ ren = [p \in Procs |-> RenIdle]
  /\ sav = [p \in Procs |-> SavIdle]
  /\ saveResult = [p \in Procs |-> "none"]
  /\ WriteQuiet
  /\ CounterQuiet
  /\ UtilQuiet

\* The same, for either of the two modules.
PublishInit ==
  /\ module \in Modules
  /\ token = NoToken
  /\ isLeader = [p \in Procs |-> FALSE]
  /\ leaderCheckAge = [p \in Procs |-> CheckCap]
  /\ acq = [p \in Procs |-> AcqIdle]
  /\ becomeResult = NothingReturned
  /\ ren = [p \in Procs |-> RenIdle]
  /\ sav = [p \in Procs |-> SavIdle]
  /\ saveResult = [p \in Procs |-> "none"]
  /\ WriteQuiet
  /\ CounterQuiet
  /\ UtilQuiet

LeaseNext ==
  \/ \E p \in Procs : BecomeLeaderCall(p)
  \/ \E p \in Procs, resp \in Responses : BecomeLeaderGetDone(p, resp)
  \/ \E p \in Procs, resp \in Responses : BecomeLeaderPutDone(p, resp)
  \/ \E p \in Procs : CheckAndRenewLeadership(p)
  \/ \E p \in Procs, resp \in Responses : RenewPutDone(p, resp)
  \/ Tick

\* The lease: acquisition, renewal, time.
SpecLease == LeaseInit /\ [][LeaseNext]_vars

\* Publication: acquisition and the save calls.  (The passing of time and the
\* renewals only change the token; they are left to SpecLease.)
PublishNext ==
  \/ \E p \in Procs : BecomeLeaderCall(p)
  \/ \E p \in Procs, resp \in Responses : BecomeLeaderGetDone(p, resp)
  \/ \E p \in Procs, resp \in Responses : BecomeLeaderPutDone(p, resp)
  \/ \E p \in Procs, n \in EntityCounts : SaveCall(p, n)
  \/ \E p \in Procs, resp \in Responses : SavePatchDone(p, resp)
  \/ \E p \in Procs, resp \in Responses : SavePutDone(p, resp)

SpecPublish == PublishInit /\ [][PublishNext]_vars

\* The lease under the scheduling the code has: time passes, the per-frame
\* loop keeps calling checkAndRenewLeadership, and every fetch settles.
FairSpecLease ==
  /\ SpecLease
  /\ WF_vars(Tick)
  /\ \A p \in Procs : WF_vars(CheckAndRenewLeadership(p))
  /\ \A p \in Procs : WF_vars(\E resp \in Responses : BecomeLeaderGetDone(p, resp))
  /\ \A p \in Procs : WF_vars(\E resp \in Responses : BecomeLeaderPutDone(p, resp))
  /\ \A p \in Procs : WF_vars(\E resp \in Responses : RenewPutDone(p, resp))

\* ========================================================================
\* Claims about the lease
\* ========================================================================
Leaders == {p \in Procs : isLeader[p]}

TokenFresh == token.present /\ token.age < LEADER_TIMEOUT

TokenExpired == token.present /\ token.age >= LEADER_TIMEOUT

\* The step in which p's becomeLeader() gets the answer to its GET.
GetSettles(p) == acq[p].pc = "get" /\ acq'[p].pc # "get"

\* The step in which p's becomeLeader() gets the answer to its PUT.
PutSettles(p) == acq[p].pc = "put" /\ acq'[p].pc # "put"

\* C1: while the stored token is younger than LEADER_TIMEOUT, a becomeLeader()
\* attempt by a process other than the one that stored it returns false,
\* leaves that process's isLeader false and leaves the token unchanged.
C1_ChallengerFailsWhileLeaseFresh ==
  [][\A p \in Procs :
       (GetSettles(p) /\ TokenFresh /\ token.writer # p)
         => /\ acq'[p].pc = "idle"
            /\ becomeResult' \in {Returned(p, "stillLeader"), Returned(p, "error")}
            /\ ~isLeader'[p]
            /\ token' = token]_vars

\* C2: at every moment at most one process holds isLeader = true.
C2_AtMostOneLeader == Cardinality(Leaders) <= 1

\* C8: once the stored token is LEADER_TIMEOUT old, a becomeLeader() attempt
\* by any process whose requests are answered goes on to PUT a fresh token
\* (timestamp: now), and with that PUT acknowledged the store holds exactly
\* that token and the caller's isLeader is true.  The only ways out are a
\* rejected fetch (the catch block) and a non-ok answer to the PUT.
C8_ExpiredLeaseIsTakenOver ==
  [][\A p \in Procs :
       /\ (GetSettles(p) /\ TokenExpired)
            => \/ acq'[p] = [pc |-> "put", putAge |-> 0, saw |-> acq'[p].saw]
               \/ becomeResult' = Returned(p, "error")
       /\ (PutSettles(p) /\ acq[p].saw = "expired")
            => \/ /\ becomeResult' = Returned(p, "tookOver")
                  /\ isLeader'[p]
                  /\ token' = Token(acq[p].putAge, p)
               \/ becomeResult' \in {Returned(p, "rejected"), Returned(p, "error")}]_vars

\* C8 witness: a process has taken over an expired lease.
C8_Witness ==
  \E p \in Procs :
    /\ becomeResult = Returned(p, "tookOver")
    /\ isLeader[p]
    /\ token = Token(0, p)
    /\ \E q \in Procs \ {p} : isLeader[q]

\* p is a leader, and the last becomeLeader() to return was another
\* process's, taking over an expired lease: p held isLeader when it did.
Superseded(p) ==
  /\ isLeader[p]
  /\ \E q \in Procs \ {p} : becomeResult = Returned(q, "tookOver")

\* C9: once a challenger has taken over from a leader that is still running,
\* that former leader's isLeader eventually becomes false.
C9_FormerLeaderStepsDown ==
  \A p \in Procs : Superseded(p) ~> ~isLeader[p]

\* ========================================================================
\* Claims about publication
\* ========================================================================
\* The step in which p sends a PUT or PATCH to the collection.
SendsCollectionWrite(p) == sav'[p].pc \in {"patch", "put"} /\ sav'[p] # sav[p]

\* C10: a process whose isLeader is false never sends a PUT or PATCH to the
\* collection: its save call returns without a request.
C10_FollowersNeverWrite ==
  [][\A p \in Procs :
       /\ SendsCollectionWrite(p) => isLeader[p]
       /\ (~isLeader[p] /\ saveResult'[p] # saveResult[p])
            => (saveResult'[p] = "skipped" /\ sav'[p] = SavIdle)]_vars

\* C10 witness: a follower's save call has returned without a request while
\* the leader has a write to the collection in flight.
C10_Witness ==
  \E p, q \in Procs :
    /\ ~isLeader[p] /\ saveResult[p] = "skipped" /\ sav[p] = SavIdle
    /\ isLeader[q] /\ sav[q].pc \in {"patch", "put"}


\* ========================================================================
\* The diamond write specifications
\* ========================================================================
LeaseQuiet ==
  /\ module = "positions"
  /\ token = NoToken
  /\ isLeader = [p \in Procs |-> FALSE]
  /\ leaderCheckAge = [p \in Procs |-> CheckCap]
  /\ acq = [p \in Procs |-> AcqIdle]
  /\ becomeResult = NothingReturned
  /\ ren = [p \in Procs |-> RenIdle]
  /\ sav = [p \in Procs |-> SavIdle]
  /\ saveResult = [p \in Procs |-> "none"]

RaceInit == LeaseQuiet /\ WriteQuiet /\ CounterQuiet /\ UtilQuiet

\* Two callers, one write each, replicas failing on their own.
RaceNext ==
  \/ \E s \in Callers, v \in 1..MaxDiamonds : RaceWrite(s, v)
  \/ \E s \in Callers, r \in Replicas : SettleWrite(s, r)
  \/ \E s \in Callers : UserWriteReturns(s)
  \/ \E r \in Replicas : ReplicaFails(r)
  \/ \E r \in Replicas : ReplicaRecovers(r)

SpecRace == RaceInit /\ [][RaceNext]_vars

RetryInit == LeaseQuiet /\ WriteQuiet /\ CounterQuiet /\ UtilQuiet

\* One caller, the retry queue, time, and outages of the whole backend.
RetryNext ==
  \/ \E v \in 1..MaxDiamonds : UserWrite(v)
  \/ \E s \in {"u1", "queue"}, r \in Replicas : SettleWrite(s, r)
  \/ UserWriteReturns("u1")
  \/ QueueRetryReturns
  \/ TimerFires
  \/ RetryDelayPasses
  \/ Outage
  \/ OutageEnds

SpecRetry == RetryInit /\ [][RetryNext]_vars

\* Every request is answered, timers fire, time passes, outages end.
FairSpecRetry ==
  /\ SpecRetry
  /\ \A s \in {"u1", "queue"}, r \in Replicas : WF_vars(SettleWrite(s, r))
  /\ WF_vars(UserWriteReturns("u1"))
  /\ WF_vars(QueueRetryReturns)
  /\ WF_vars(TimerFires)
  /\ WF_vars(RetryDelayPasses)
  /\ WF_vars(OutageEnds)

\* ========================================================================
\* The in-memory counter (diamonds.ts)
\* ========================================================================
StartSave(s, v) ==
  /\ calls' = [calls EXCEPT ![s] = StartCall(v, ~writeMutex)]
  /\ writeMutex' = TRUE

\* A diamond is collected: setDiamondsCollected(getDiamondsCollected() + 1),
\* which starts verifyAndCorrectDiamondCount in the background.
SetDiamondsCollected ==
  /\ diamondsCollected < MaxDiamonds
  /\ verify.pc = "idle"
  /\ diamondsCollected' = diamondsCollected + 1
  /\ verify' = [pc |-> "load", localCount |-> diamondsCollected + 1]
  /\ UNCHANGED <<integ, initPhase>>
  /\ UNCHANGED <<leaseVars, writeVars, utilVars>>

\* verifyAndCorrectDiamondCount after its loadPlayerDiamondsRobust.
VerifyLoadDone ==
  /\ verify.pc = "load"
  /\ LET firebaseCount == ReconciledRead
         localCount == verify.localCount
         correctCount == Max2(localCount, firebaseCount)
     IN /\ diamondsCollected' = IF firebaseCount # localCount /\ correctCount # localCount
                                THEN correctCount ELSE diamondsCollected
        /\ IF firebaseCount # localCount /\ correctCount # firebaseCount
           THEN /\ StartSave("verify", correctCount)
                /\ verify' = [verify EXCEPT !.pc = "save"]
           ELSE /\ verify' = VerifyIdle
                /\ UNCHANGED <<calls, writeMutex>>
  /\ UNCHANGED <<store, localDiamondStorage, down, outages, failedSavesQueue,
                 isProcessingQueue, procIdx, procAge, timerArmed, timerDue,
                 written, overlapped, maxReturned, lastRetry, aborted, writeResult>>
  /\ UNCHANGED <<integ, initPhase>>
  /\ UNCHANGED <<leaseVars, utilVars>>

VerifySaveReturns ==
  /\ verify.pc = "save"
  /\ calls["verify"].phase = "limit"
  /\ Returns("verify", NoValue)
  /\ verify' = VerifyIdle
  /\ UNCHANGED <<store, down, outages, timerDue, written, overlapped,
                 maxReturned, lastRetry, aborted, writeResult>>
  /\ UNCHANGED <<diamondsCollected, integ, initPhase>>
  /\ UNCHANGED <<leaseVars, utilVars>>

\* The 30 s integrity check starts: verifyDiamondIntegrity is passed the
\* value diamondsCollected has now.
IntegrityCheck ==
  /\ initPhase = "done"
  /\ integ.pc = "idle"
  /\ integ' = [pc |-> "load", current |-> diamondsCollected]
  /\ UNCHANGED <<diamondsCollected, verify, initPhase>>
  /\ UNCHANGED <<leaseVars, writeVars, utilVars>>

\* What the .then handler of the integrity check does with verifiedCount.
Corrected(verifiedCount) == verifiedCount

\* verifyDiamondIntegrity after its load: a larger stored value is saved
\* first; otherwise currentDiamonds is returned and the handler runs.
IntegrityLoadDone ==
  /\ integ.pc = "load"
  /\ LET verifiedDiamonds == ReconciledRead
         currentDiamonds == integ.current
     IN IF verifiedDiamonds > currentDiamonds
        THEN /\ StartSave("integrity", verifiedDiamonds)
             /\ integ' = [integ EXCEPT !.pc = "save"]
             /\ UNCHANGED diamondsCollected
        ELSE /\ diamondsCollected' = Corrected(currentDiamonds)
             /\ integ' = IntegIdle
             /\ UNCHANGED <<calls, writeMutex>>
  /\ UNCHANGED <<store, localDiamondStorage, down, outages, failedSavesQueue,
                 isProcessingQueue, procIdx, procAge, timerArmed, timerDue,
                 written, overlapped, maxReturned, lastRetry, aborted, writeResult>>
  /\ UNCHANGED <<verify, initPhase>>
  /\ UNCHANGED <<leaseVars, utilVars>>

IntegritySaveReturns ==
  /\ integ.pc = "save"
  /\ calls["integrity"].phase = "limit"
  /\ Returns("integrity", NoValue)
  /\ diamondsCollected' = Corrected(calls["integrity"].diamonds)
  /\ integ' = IntegIdle
  /\ UNCHANGED <<store, down, outages, timerDue, written, overlapped,
                 maxReturned, lastRetry, aborted, writeResult>>
  /\ UNCHANGED <<verify, initPhase>>
  /\ UNCHANGED <<leaseVars, utilVars>>

\* initDiamondsForPlayer after its loadPlayerDiamondsRobust: a larger
\* recovered value is taken, a smaller one is overwritten by a save, and the
\* confirming save follows.
RecoveryLoadDone ==
  /\ initPhase = "load"
  /\ LET recoveredDiamonds == ReconciledRead
     IN /\ diamondsCollected' = IF recoveredDiamonds > diamondsCollected
                                THEN recoveredDiamonds ELSE diamondsCollected
        /\ initPhase' = IF diamondsCollected > recoveredDiamonds THEN "save" ELSE "confirm"
        /\ StartSave("init", Max2(recoveredDiamonds, diamondsCollected))
  /\ UNCHANGED <<store, localDiamondStorage, down, outages, failedSavesQueue,
                 isProcessingQueue, procIdx, procAge, timerArmed, timerDue,
                 written, overlapped, maxReturned, lastRetry, aborted, writeResult>>
  /\ UNCHANGED <<verify, integ>>
  /\ UNCHANGED <<leaseVars, utilVars>>

RecoverySaveReturns ==
  /\ initPhase \in {"save", "confirm"}
  /\ calls["init"].phase = "limit"
  /\ Returns("init", IF initPhase = "save" THEN diamondsCollected ELSE NoValue)
  /\ initPhase' = IF initPhase = "save" THEN "confirm" ELSE "done"
  /\ UNCHANGED <<store, down, outages, timerDue, written, overlapped,
                 maxReturned, lastRetry, aborted, writeResult>>
  /\ UNCHANGED <<diamondsCollected, verify, integ>>
  /\ UNCHANGED <<leaseVars, utilVars>>

\* A player arrives whose replicas hold a value from an earlier session.
CounterInit ==
  /\ LeaseQuiet
  /\ \E v \in Diamonds : store = [r \in Replicas |-> v]
  /\ localDiamondStorage = 0
  /\ down = {}
  /\ outages = 0
  /\ writeMutex = FALSE
  /\ calls = [s \in Slots |-> CallIdle]
  /\ failedSavesQueue = <<>>
  /\ isProcessingQueue = FALSE
  /\ procIdx = 0
  /\ procAge = 0
  /\ timerArmed = FALSE
  /\ timerDue = FALSE
  /\ written = [s \in Callers |-> 0]
  /\ overlapped = FALSE
  /\ maxReturned = 0
  /\ lastRetry = NoRetry
  /\ aborted = [s \in Slots |-> {}]
  /\ writeResult = [s \in Callers |-> "none"]
  /\ diamondsCollected = 0
  /\ verify = VerifyIdle
  /\ integ = IntegIdle
  /\ initPhase = "load"
  /\ UtilQuiet

CounterNext ==
  \/ SetDiamondsCollected
  \/ VerifyLoadDone
  \/ VerifySaveReturns
  \/ IntegrityCheck
  \/ IntegrityLoadDone
  \/ IntegritySaveReturns
  \/ RecoveryLoadDone
  \/ RecoverySaveReturns
  \/ \E s \in {"verify", "integrity", "init"}, r \in Replicas : SettleWrite(s, r)

SpecCounter == CounterInit /\ [][CounterNext]_vars

\* ========================================================================
\* Claims about the counter
\* ========================================================================
\* C3: no step of initialization, of the background verification or of the
\* integrity check lowers diamondsCollected.
C3_CounterNeverRegresses == [][diamondsCollected' >= diamondsCollected]_vars

\* ========================================================================
\* Claims about diamond writes
\* ========================================================================
AllReturned == \A s \in Callers : written[s] # 0 /\ ~InFlight(s)

\* C4: after two overlapping write() calls have both returned, with nothing
\* left in the retry queue and every replica reachable, a reconciled read
\* returns the larger of the two values.
C4_ConcurrentWritesReadMax ==
  (AllReturned /\ overlapped /\ failedSavesQueue = <<>> /\ down = {})
    => ReconciledRead = Max2(written["u1"], written["u2"])

\* C5: once write(v) has returned, a reconciled read returns at least v, the
\* caller never writing a value below an earlier one.
C5_ReturnedProgressIsKept == ReconciledRead >= maxReturned

FailedRetryReturns ==
  /\ isProcessingQueue
  /\ calls["queue"].phase = "limit"
  /\ ~calls["queue"].anyOk
  /\ calls'["queue"] # calls["queue"]

\* C6: when a retry of a queue entry has failed, the entry stays in the queue
\* as it is while it has fewer than MAX_RETRY_ATTEMPTS attempts, and with
\* MAX_RETRY_ATTEMPTS attempts it leaves the queue and nothing takes its place.
C6_RemovedAfterMaxAttempts ==
  [][FailedRetryReturns =>
       IF failedSavesQueue[procIdx].attempts < MAX_RETRY_ATTEMPTS
       THEN /\ Len(failedSavesQueue') >= procIdx
            /\ failedSavesQueue'[procIdx].diamonds = failedSavesQueue[procIdx].diamonds
            /\ failedSavesQueue'[procIdx].attempts = failedSavesQueue[procIdx].attempts
       ELSE Len(failedSavesQueue') = Len(failedSavesQueue) - 1]_vars

Queued(v) == \E j \in 1..Len(failedSavesQueue) : failedSavesQueue[j].diamonds = v

\* C7: a queued write of v leads to a state where the background loop has had
\* v accepted by a remote replica and no entry for v is left in the queue.
C7_QueuedWriteIsPersisted ==
  \A v \in 1..MaxDiamonds :
    Queued(v) ~> (~Queued(v) /\ lastRetry = [diamonds |-> v, ok |-> TRUE])

\* The caller wrote 1 during the outage and nothing else; the loop stored it.
C7_Witness ==
  /\ outages = 1 /\ down = {}
  /\ written["u1"] = 1 /\ ~InFlight("u1")
  /\ failedSavesQueue = <<>> /\ ~isProcessingQueue
  /\ lastRetry = [diamonds |-> 1, ok |-> TRUE]
  /\ \E r \in Replicas : store[r] = 1

\* ========================================================================
\* The lease with a leader that keeps renewing
\* ========================================================================
\* checkAndRenewLeadership is called on every frame: no renewal that is due
\* is left uncalled while time passes.
RenewalsKeepUp == \A p \in Procs : ~(RenewDue(p) /\ ren[p].pc = "idle")

TickBetweenFrames == RenewalsKeepUp /\ Tick

\* Every renewal PUT is accepted.
RenewNext ==
  \/ \E p \in Procs : BecomeLeaderCall(p)
  \/ \E p \in Procs, resp \in Responses : BecomeLeaderGetDone(p, resp)
  \/ \E p \in Procs, resp \in Responses : BecomeLeaderPutDone(p, resp)
  \/ \E p \in Procs : CheckAndRenewLeadership(p)
  \/ \E p \in Procs : RenewPutDone(p, "ok")
  \/ TickBetweenFrames

SpecRenew == LeaseInit /\ [][RenewNext]_vars

\* While there is a leader the stored token is younger than LEADER_TIMEOUT.
RenewedTokenStaysFresh == (Leaders # {}) => TokenFresh

\* C11: with a leader that renews on every frame and whose renewal PUTs are
\* accepted, the token stays younger than LEADER_TIMEOUT and no other
\* process becomes leader.
C11_RenewingLeaderKeepsLease ==
  [][(Leaders # {}) => (TokenFresh /\ TokenFresh' /\ Leaders' = Leaders)]_vars

\* ========================================================================
\* Writes aborted by the teardown of the host process
\* ========================================================================
\* The fetch of one remote write of call s rejects with a cancellation
\* error: retryWithBackoff rethrows it at once, and each of the three save
\* functions catches it and returns false.
CancelWrite(s, r) ==
  /\ calls[s].phase = "writes"
  /\ r \in calls[s].pending
  /\ LET c == calls[s]
         pend == c.pending \ {r}
     IN /\ writeMutex' = IF r = "primary" THEN FALSE ELSE writeMutex
        /\ calls' = [calls EXCEPT ![s] =
                       [c EXCEPT !.pending = pend,
                                 !.attempt = IF r = "primary" THEN 0 ELSE @,
                                 !.phase = IF pend = {} THEN "limit" ELSE "writes"]]
        /\ aborted' = [aborted EXCEPT ![s] = @ \cup {r}]
  /\ UNCHANGED <<store, localDiamondStorage, down, outages, failedSavesQueue,
                 isProcessingQueue, procIdx, procAge, timerArmed, timerDue,
                 written, overlapped, maxReturned, lastRetry, writeResult>>
  /\ UNCHANGED <<leaseVars, counterVars, utilVars>>

TeardownInit == LeaseQuiet /\ WriteQuiet /\ CounterQuiet /\ UtilQuiet

\* One caller whose requests are accepted, refused or aborted.
TeardownNext ==
  \/ \E v \in 1..MaxDiamonds : UserWrite(v)
  \/ \E r \in Replicas : SettleWrite("u1", r)
  \/ \E r \in Replicas : CancelWrite("u1", r)
  \/ UserWriteReturns("u1")
  \/ \E r \in Replicas : ReplicaFails(r)
  \/ \E r \in Replicas : ReplicaRecovers(r)

SpecTeardown == TeardownInit /\ [][TeardownNext]_vars

\* C12: a call all of whose remote writes were aborted by teardown puts no
\* entry into the retry queue when it returns.
C12_AbortedWriteIsNotQueued ==
  [][\A s \in Callers :
       (calls[s].phase = "limit" /\ calls'[s].phase = "idle" /\ aborted[s] = Replicas)
         => failedSavesQueue' = failedSavesQueue]_vars

\* ========================================================================
\* Claims about the write lock and the replica writes
\* ========================================================================
Starts(s) == calls[s].phase = "idle" /\ calls'[s].phase = "writes"

PrimaryInFlight == {s \in Slots : "primary" \in calls[s].pending}

\* C13: every write() call has its primary PUT sent (a call has no later
\* moment at which it could send it than its start), and never are two
\* primary PUTs in flight at once.
C13_OverlappingWritesAreSerialized ==
  [][/\ \A s \in Callers : Starts(s) => "primary" \in calls'[s].pending
     /\ Cardinality(PrimaryInFlight') <= 1]_vars

\* ========================================================================
\* The write lock (acquireWriteMutex / releaseWriteMutex), two subjects
\* ========================================================================
OlderLock(a) == IF a + TickMs >= WRITE_TIMEOUT THEN WRITE_TIMEOUT ELSE a + TickMs

\* The force-release timer runs: if (writeMutex) writeMutex = false.
ForceReleased_Kept(m) == m

ForceReleased(m) == FALSE

\* savePlayerDiamondsPrimary for subject a up to its PUT: acquireWriteMutex
\* fails when the flag is set; otherwise it sets the flag and the timer.
SavePrimaryCall(a) ==
  /\ primaryOf[a].pc = "idle"
  /\ IF writeMutex
     THEN /\ acquired' = [acquired EXCEPT ![a] = "false"]
          /\ UNCHANGED <<writeMutex, lockTimers, primaryOf>>
     ELSE /\ writeMutex' = TRUE
          /\ acquired' = [acquired EXCEPT ![a] = "true"]
          /\ lockTimers' = lockTimers \cup {0}
          /\ primaryOf' = [primaryOf EXCEPT ![a] = [pc |-> "put", age |-> 0]]
  /\ UNCHANGED <<store, localDiamondStorage, down, outages, calls,
                 failedSavesQueue, isProcessingQueue, procIdx, procAge,
                 timerArmed, timerDue, written, overlapped, maxReturned,
                 lastRetry, aborted, writeResult>>
  /\ UNCHANGED <<leaseVars, counterVars, rb, gameVars>>

\* The PUT of subject a is over, one way or the other; finally releases.
SavePrimaryDone(a) ==
  /\ primaryOf[a].pc = "put"
  /\ writeMutex' = FALSE
  /\ primaryOf' = [primaryOf EXCEPT ![a] = PrimaryIdle]
  /\ UNCHANGED <<store, localDiamondStorage, down, outages, calls,
                 failedSavesQueue, isProcessingQueue, procIdx, procAge,
                 timerArmed, timerDue, written, overlapped, maxReturned,
                 lastRetry, aborted, writeResult>>
  /\ UNCHANGED <<leaseVars, counterVars, acquired, lockTimers, rb, gameVars>>

LockTimerFires ==
  /\ WRITE_TIMEOUT \in lockTimers
  /\ lockTimers' = lockTimers \ {WRITE_TIMEOUT}
  /\ writeMutex' = IF writeMutex THEN ForceReleased(writeMutex) ELSE writeMutex
  /\ UNCHANGED <<store, localDiamondStorage, down, outages, calls,
                 failedSavesQueue, isProcessingQueue, procIdx, procAge,
                 timerArmed, timerDue, written, overlapped, maxReturned,
                 lastRetry, aborted, writeResult>>
  /\ UNCHANGED <<leaseVars, counterVars, primaryOf, acquired, rb, gameVars>>

\* TickMs pass; a timer that is due has fired before more time passes.
LockTick ==
  /\ WRITE_TIMEOUT \notin lockTimers
  /\ lockTimers' = {OlderLock(t) : t \in lockTimers}
  /\ primaryOf' = [a \in Subjects |->
                     IF primaryOf[a].pc = "put"
                     THEN [primaryOf[a] EXCEPT !.age = OlderLock(@)] ELSE primaryOf[a]]
  /\ UNCHANGED writeVars
  /\ UNCHANGED <<leaseVars, counterVars, acquired, rb, gameVars>>

LockInit == LeaseQuiet /\ WriteQuiet /\ CounterQuiet /\ UtilQuiet

LockNext ==
  \/ \E a \in Subjects : SavePrimaryCall(a)
  \/ \E a \in Subjects : SavePrimaryDone(a)
  \/ LockTimerFires
  \/ LockTick

SpecLock == LockInit /\ [][LockNext]_vars

\* Time passes and timers fire; a PUT need not ever be answered.
FairSpecLock == SpecLock /\ WF_vars(LockTick) /\ WF_vars(LockTimerFires)

\* C14: while the write of one subject holds the lock, acquireWriteMutex
\* for a different subject succeeds and that subject's primary PUT is sent.
C14_LockIsPerSubject ==
  [][\A a, b \in Subjects :
       (a # b /\ writeMutex /\ primaryOf[b].pc = "put" /\ primaryOf[a].pc = "idle"
          /\ acquired'[a] # acquired[a])
         => (acquired'[a] = "true" /\ primaryOf'[a].pc = "put")]_vars

\* C15: while the lock is held a force-release timer set no more than
\* WRITE_TIMEOUT ago is pending, and a held lock is released again, whether
\* or not its holder ever releases it.
C15_LockIsEventuallyFree ==
  /\ [](writeMutex => lockTimers # {})
  /\ writeMutex ~> ~writeMutex

\* A's PUT has been unanswered for WRITE_TIMEOUT and B has just acquired.
C15_Witness ==
  /\ primaryOf["A"] = [pc |-> "put", age |-> WRITE_TIMEOUT]
  /\ primaryOf["B"] = [pc |-> "put", age |-> 0]
  /\ acquired["B"] = "true"

\* The attempt a remote write of call c to replica r is at: the primary
\* write runs under retryWithBackoff, the two backup writes are one fetch.
AttemptNo(c, r) == IF r = "primary" THEN c.attempt ELSE 1

GivenUpAfterRefusal(s, r) ==
  /\ r \in calls[s].pending
  /\ r \in down
  /\ r \notin calls'[s].pending
  /\ aborted'[s] = aborted[s]

\* C16: a write to any replica counts as failed only when its attempt
\* number MAX_RETRY_ATTEMPTS has been refused.
C16_EveryReplicaWriteIsRetried ==
  [][\A s \in Callers, r \in Replicas :
       GivenUpAfterRefusal(s, r) => AttemptNo(calls[s], r) = MAX_RETRY_ATTEMPTS]_vars

\* C17: when savePlayerDiamondsRobust first suspends, the local fallback
\* already holds the value of the call.
C17_LocalCacheWrittenAtCall ==
  [][\A s \in Callers : Starts(s) => localDiamondStorage' = calls'[s].diamonds]_vars

\* C18: whatever the remote writes do, savePlayerDiamondsRobust returns true.
C18_WriteAlwaysReturnsTrue == \A s \in Callers : writeResult[s] \in {"none", "true"}

\* A call none of whose remote writes was accepted has returned true.
C18_Witness ==
  /\ writeResult["u1"] = "true"
  /\ ~InFlight("u1")
  /\ store = [r \in Replicas |-> 0]
  /\ Len(failedSavesQueue) = 1
  /\ localDiamondStorage = written["u1"]

\* ---------------------------------------------------------------------
\* retryWithBackoff
\* ---------------------------------------------------------------------

RETRY_DELAY_MS == 1000

RETRY_BACKOFF_MULTIPLIER == 2

\* Largest maxAttempts argument and largest multiple of RETRY_DELAY_MS
\* passed as baseDelay.
MaxAttemptsArg == 3

MaxDelayFactor == 2

BaseDelays == {k * RETRY_DELAY_MS : k \in 1..MaxDelayFactor}

PlainErrors == {"network", "http"}

CancelErrors == {"CancellationTokenSource", "disposed"}

IsCancellation(e) == e \in CancelErrors

RECURSIVE Pow(_, _)
Pow(b, n) == IF n <= 0 THEN 1 ELSE b * Pow(b, n - 1)

RECURSIVE SumSeq(_)
SumSeq(q) == IF q = <<>> THEN 0 ELSE Head(q) + SumSeq(Tail(q))

BackoffDelay_Fixed(baseDelay, attempt) == baseDelay

BackoffDelay(baseDelay, attempt) == baseDelay * Pow(RETRY_BACKOFF_MULTIPLIER, attempt - 1)

LastAttempt_Never(attempt, maxAttempts) == FALSE

LastAttempt(attempt, maxAttempts) == attempt = maxAttempts

\* retryWithBackoff(operation, maxAttempts, baseDelay): the loop starts at
\* attempt 1 and calls operation().
RetryWithBackoffCall(maxAttempts, baseDelay) ==
  /\ rb.pc = "idle"
  /\ rb' = [RbIdle EXCEPT !.pc = "op", !.maxAttempts = maxAttempts,
                          !.baseDelay = baseDelay, !.attempt = 1,
                          !.invocations = 1]
  /\ UNCHANGED <<leaseVars, writeVars, counterVars, primaryOf, acquired, lockTimers, gameVars>>

\* `return await operation()` with the promise fulfilled.
OperationResolves ==
  /\ rb.pc = "op"
  /\ rb' = [rb EXCEPT !.pc = "returned", !.result = <<"ok", rb.invocations>>]
  /\ UNCHANGED <<leaseVars, writeVars, counterVars, primaryOf, acquired, lockTimers, gameVars>>

\* The catch block: a cancellation error and the error of the last
\* attempt are thrown, any other error starts the backoff timer.
OperationRejects(e) ==
  /\ rb.pc = "op"
  /\ LET errs == Append(rb.errors, e)
     IN IF IsCancellation(e) \/ LastAttempt(rb.attempt, rb.maxAttempts)
          THEN rb' = [rb EXCEPT !.pc = "threw", !.errors = errs,
                                !.result = <<"error", e>>]
          ELSE rb' = [rb EXCEPT !.pc = "delay", !.errors = errs,
                                !.delays = Append(rb.delays,
                                             BackoffDelay(rb.baseDelay, rb.attempt))]
  /\ UNCHANGED <<leaseVars, writeVars, counterVars, primaryOf, acquired, lockTimers, gameVars>>

\* The backoff timer fires: attempt++, then the loop condition; when it
\* fails the function ends with `throw lastError`.
DelayElapses ==
  /\ rb.pc = "delay"
  /\ IF rb.attempt + 1 <= rb.maxAttempts
       THEN rb' = [rb EXCEPT !.pc = "op", !.attempt = rb.attempt + 1,
                             !.invocations = rb.invocations + 1]
       ELSE rb' = [rb EXCEPT !.pc = "threw", !.attempt = rb.attempt + 1,
                             !.result = <<"error", rb.errors[Len(rb.errors)]>>]
  /\ UNCHANGED <<leaseVars, writeVars, counterVars, primaryOf, acquired, lockTimers, gameVars>>

BackoffInit == LeaseQuiet /\ WriteQuiet /\ CounterQuiet /\ UtilQuiet

BackoffNext ==
  \/ \E maxAttempts \in 1..MaxAttemptsArg, baseDelay \in BaseDelays :
       RetryWithBackoffCall(maxAttempts, baseDelay)
  \/ OperationResolves
  \/ \E e \in PlainErrors \cup CancelErrors : OperationRejects(e)
  \/ DelayElapses

SpecBackoff == BackoffInit /\ [][BackoffNext]_vars

\* C19: retryWithBackoff invokes the operation at most maxAttempts times,
\* returns the result of the first invocation that succeeds, waits
\* baseDelay * multiplier^(attempt-1) after failed attempt number `attempt`
\* before the next invocation, and throws the last error once attempt
\* number maxAttempts has failed.
C19_RetryWithBackoffContract ==
  /\ rb.invocations <= rb.maxAttempts
  /\ \A i \in 1..Len(rb.delays) :
       rb.delays[i] = rb.baseDelay * Pow(RETRY_BACKOFF_MULTIPLIER, i - 1)
  /\ rb.pc = "op" => /\ Len(rb.delays) = rb.invocations - 1
                     /\ Len(rb.errors) = rb.invocations - 1
  /\ rb.pc = "returned" => /\ rb.result = <<"ok", rb.invocations>>
                           /\ Len(rb.errors) = rb.invocations - 1
  /\ (rb.pc = "threw" /\ Len(rb.errors) = rb.maxAttempts) =>
       /\ rb.invocations = rb.maxAttempts
       /\ rb.result = <<"error", rb.errors[rb.maxAttempts]>>
       /\ Len(rb.delays) = rb.maxAttempts - 1
  /\ rb.pc \in {"returned", "threw"} => rb.result # "none"

\* Three failed attempts with the default arguments: 1000 ms and 2000 ms
\* were waited and the third error is thrown.
C19_Witness ==
  /\ rb.pc = "threw"
  /\ rb.maxAttempts = MAX_RETRY_ATTEMPTS
  /\ rb.baseDelay = RETRY_DELAY_MS
  /\ rb.invocations = 3
  /\ rb.errors = <<"network", "network", "http">>
  /\ rb.delays = <<1000, 2000>>
  /\ rb.result = <<"error", "http">>

AllAttemptsFailed == rb.pc = "threw" /\ Len(rb.errors) = rb.maxAttempts

\* C20 (as stated): when every attempt fails the backoff delays add up to
\* baseDelay * (multiplier^maxAttempts - 1), 7000 ms with the defaults.
C20_SpanAsStated ==
  AllAttemptsFailed =>
    SumSeq(rb.delays) = rb.baseDelay * (Pow(RETRY_BACKOFF_MULTIPLIER, rb.maxAttempts) - 1)

\* C20 (amended): when every attempt fails the backoff delays add up to
\* baseDelay * (multiplier^(maxAttempts-1) - 1), 3000 ms with the defaults:
\* no delay follows the last attempt.
C20_LadderSpan ==
  AllAttemptsFailed =>
    /\ SumSeq(rb.delays) =
         rb.baseDelay * (Pow(RETRY_BACKOFF_MULTIPLIER, rb.maxAttempts - 1) - 1)
    /\ (rb.maxAttempts = MAX_RETRY_ATTEMPTS /\ rb.baseDelay = RETRY_DELAY_MS) =>
         SumSeq(rb.delays) = 3000

C20_Witness ==
  /\ AllAttemptsFailed
  /\ rb.maxAttempts = MAX_RETRY_ATTEMPTS
  /\ rb.baseDelay = RETRY_DELAY_MS
  /\ \A i \in 1..Len(rb.errors) : ~IsCancellation(rb.errors[i])
  /\ SumSeq(rb.delays) = 3000

\* ---------------------------------------------------------------------
\* loadPlayerDiamondsRobust
\* ---------------------------------------------------------------------

\* result.status === 'fulfilled' && result.value
Usable(o) == o.kind \in {"nofield", "record"}

\* data.diamonds || 0
DiamondCount(o) == IF o.kind = "record" THEN o.diamonds ELSE 0

LoadedDiamonds_AllOrNothing(sources, localDiamonds) ==
  IF \A r \in Replicas : sources[r].kind = "record"
    THEN MaxOf({sources[r].diamonds : r \in Replicas} \cup {localDiamonds})
    ELSE 0

\* The diamonds array and the value returned from it.
LoadedDiamonds(sources, localDiamonds) ==
  LET remote == {DiamondCount(sources[r]) :
                   r \in {x \in Replicas : Usable(sources[x])}}
      diamonds == {n \in remote \cup {localDiamonds} : n > 0}
  IN IF diamonds = {} THEN 0 ELSE MaxOf(diamonds)

\* loadPlayerDiamondsRobust(address): the three fetches are sent.
LoadCall ==
  /\ ld.pc = "idle"
  /\ ld' = [LdIdle EXCEPT !.pc = "await"]
  /\ UNCHANGED <<baseVars, batchVars, playerVars, diamondVars, lateVars>>

\* One of the three promises settles.
SourceSettles(r, o) ==
  /\ ld.pc = "await"
  /\ ld.sources[r] = Pending
  /\ ld' = [ld EXCEPT !.sources[r] = o]
  /\ UNCHANGED <<baseVars, batchVars, playerVars, diamondVars, lateVars>>

\* Promise.allSettled resolves; the rest of the function runs.
LoadReturns ==
  /\ ld.pc = "await"
  /\ \A r \in Replicas : ld.sources[r] # Pending
  /\ ld' = [ld EXCEPT !.pc = "returned",
                      !.result = LoadedDiamonds(ld.sources, localDiamondStorage)]
  /\ UNCHANGED <<baseVars, batchVars, playerVars, diamondVars, lateVars>>

\* The local fallback holds any value an earlier write has left in it.
LoadInit ==
  /\ LeaseQuiet /\ CounterQuiet /\ UtilQuiet
  /\ localDiamondStorage \in Diamonds
  /\ store = [r \in Replicas |-> 0]
  /\ down = {}
  /\ outages = 0
  /\ writeMutex = FALSE
  /\ calls = [s \in Slots |-> CallIdle]
  /\ failedSavesQueue = <<>>
  /\ isProcessingQueue = FALSE
  /\ procIdx = 0
  /\ procAge = 0
  /\ timerArmed = FALSE
  /\ timerDue = FALSE
  /\ written = [s \in Callers |-> 0]
  /\ overlapped = FALSE
  /\ maxReturned = 0
  /\ lastRetry = NoRetry
  /\ aborted = [s \in Slots |-> {}]
  /\ writeResult = [s \in Callers |-> "none"]

LoadNext ==
  \/ LoadCall
  \/ \E r \in Replicas, o \in Outcomes : SourceSettles(r, o)
  \/ LoadReturns

SpecLoad == LoadInit /\ [][LoadNext]_vars

\* The non-zero readings the sources yielded.
ParsedReadings ==
  {ld.sources[r].diamonds :
     r \in {x \in Replicas : ld.sources[x].kind = "record"}} \ {0}

\* C21: a reconciled read returns the largest non-zero reading among the
\* three replicas and the local cache, 0 when there is none, whatever the
\* other sources answered; it always returns.
C21_ReadReturnsMaxOfReadings ==
  /\ ld.pc \in {"idle", "await", "returned"}
  /\ ld.pc = "returned" =>
       LET all == ParsedReadings \cup ({localDiamondStorage} \ {0})
       IN /\ all = {} => ld.result = 0
          /\ all # {} => /\ ld.result \in all
                         /\ \A n \in all : n <= ld.result

\* Two sources failed, the third and the local cache were still used.
C21_Witness ==
  /\ ld.pc = "returned"
  /\ ld.sources["primary"].kind = "rejected"
  /\ ld.sources["backup"].kind = "notok"
  /\ ld.sources["global"] = [kind |-> "record", diamonds |-> 1]
  /\ localDiamondStorage = 2
  /\ ld.result = 2

\* The integrity check's load comes back with a value that differs from
\* the in-memory value it was started with.
IntegrityFindsDifference ==
  /\ integ.pc = "load"
  /\ integ'.pc # "load"
  /\ ReconciledRead # integ.current

\* C22: whenever the integrity check finds the in-memory value different
\* from the reconciled read, the higher of the two is written back to the
\* replicas, whichever of the two is the higher one.
C22_HigherValueIsWrittenBack ==
  [][IntegrityFindsDifference =>
       /\ calls'["integrity"].phase = "writes"
       /\ calls'["integrity"].diamonds = Max2(integ.current, ReconciledRead)]_vars

\* The smallest k with k * d >= n.
CeilDiv(n, d) == CHOOSE k \in 0..n : k * d >= n /\ (k = 0 \/ (k - 1) * d < n)

Indices(range) == range.first .. range.last

\* The PATCHes of h are ceil(n/50) calls, call k covering
\* [50k, min(50k+49, n-1)], pairwise disjoint and covering 0..n-1.
ExactBatches(h) ==
  /\ Len(h.ranges) = CeilDiv(h.n, BATCH_SIZE)
  /\ \A k \in 1..Len(h.ranges) :
       h.ranges[k] = [first |-> BATCH_SIZE * (k - 1),
                      last |-> Min2(BATCH_SIZE * (k - 1) + BATCH_SIZE - 1, h.n - 1)]
  /\ \A j, k \in 1..Len(h.ranges) :
       j # k => Indices(h.ranges[j]) \cap Indices(h.ranges[k]) = {}
  /\ UNION {Indices(h.ranges[k]) : k \in 1..Len(h.ranges)} = 0..(h.n - 1)
  /\ h.n = 120 => h.ranges = <<[first |-> 0, last |-> 49], [first |-> 50, last |-> 99],
                               [first |-> 100, last |-> 119]>>

C26_WritesArePatchChunks ==
  [][\A p \in Procs :
       SendsCollectionWrite(p) =>
         /\ sav'[p].pc = "patch"
         /\ Len(patched'[p].ranges) > 0
         /\ LET chunk == patched'[p].ranges[Len(patched'[p].ranges)]
            IN chunk.last - chunk.first + 1 <= BATCH_SIZE]_vars

\* The writers whose acquisition of the lock is the latest one.
Holders ==
  {a \in Subjects :
     /\ primaryOf[a].pc = "put"
     /\ \A b \in Subjects : primaryOf[b].pc = "put" => primaryOf[a].age <= primaryOf[b].age}

\* C30: the flag, once set by a writer, is cleared only by that writer's
\* release or when WRITE_TIMEOUT has passed since that writer's acquisition;
\* the timer of an earlier, released acquisition does not clear it.
C30_LockHeldUntilReleaseOrOwnTimeout ==
  [][(writeMutex /\ ~writeMutex') =>
       \E a \in Holders : \/ primaryOf'[a].pc = "idle"
                          \/ primaryOf[a].age = WRITE_TIMEOUT]_vars

\* ---------------------------------------------------------------------
\* Lives (player.ts)
\* ---------------------------------------------------------------------

\* Largest value of livesNow.
MaxNow == 2

\* The body setPlayerLife PUTs.
LifeRecord(lives, regenQueue) == [present |-> TRUE, lives |-> lives, regenQueue |-> regenQueue]

\* setPlayerLife: the PUT replaces the stored record unless it fails.
SetPlayerLife(saved, lives, regenQueue) ==
  IF saved THEN LifeRecord(lives, regenQueue) ELSE remoteLives

\* .filter((t: number) => t > now())
StillToCome(t) == t > livesNow

\* base + i * (LIFE_REGEN_MINUTES * MS_IN_MIN) for i = from .. missing
RECURSIVE RebuiltQueue(_, _, _)
RebuiltQueue(base, from, missing) ==
  IF from > missing THEN <<>>
  ELSE <<base + from * LIFE_REGEN>> \o RebuiltQueue(base, from + 1, missing)

\* The catch-up loop of init: every head entry that is due gives a life.
RECURSIVE CatchUp(_)
CatchUp(pl) ==
  IF Len(pl.regenQueue) > 0 /\ pl.lives < PLAYER_MAX_LIVES /\ ~(livesNow < Head(pl.regenQueue))
    THEN CatchUp([lives |-> pl.lives + 1, regenQueue |-> Tail(pl.regenQueue)])
    ELSE pl

\* PlayerUI.init(CONFIG.PLAYER.LIVES, name, address); resp is the answer to
\* getPlayerLife, saved the outcome of the setPlayerLife calls.
PlayerInit(resp, saved) ==
  /\ initResult = "none"
  /\ LET remote == IF resp = "ok" THEN remoteLives ELSE NoRecord
         lives0 == Max2(0, Min2(remote.lives, PLAYER_MAX_LIVES))
         queue0 == SelectSeq(remote.regenQueue, StillToCome)
         rebuild == Len(queue0) = 0 /\ lives0 < PLAYER_MAX_LIVES
         loaded == IF remote.present
                     THEN [lives |-> lives0,
                           regenQueue |-> IF rebuild
                                            THEN RebuiltQueue(livesNow, 1, PLAYER_MAX_LIVES - lives0)
                                            ELSE queue0]
                     ELSE [lives |-> PLAYER_LIVES, regenQueue |-> PlayerUI.regenQueue]
         after == CatchUp(loaded)
     IN /\ PlayerUI' = after
        /\ remoteLives' = IF (remote.present /\ rebuild) \/ ~remote.present \/ after # loaded
                            THEN SetPlayerLife(saved, after.lives, after.regenQueue)
                            ELSE remoteLives
        /\ initResult' = IF remote.present THEN "loaded" ELSE "created"
  /\ UNCHANGED livesNow
  /\ UNCHANGED <<baseVars, loadVars, batchVars, diamondVars, lateVars>>

\* PlayerUI.loseLife()
LoseLife(saved) ==
  /\ initResult # "none"
  /\ PlayerUI.lives > 0
  /\ LET pl == [lives |-> PlayerUI.lives - 1,
                regenQueue |-> Append(PlayerUI.regenQueue, livesNow + LIFE_REGEN)]
     IN /\ PlayerUI' = pl
        /\ remoteLives' = SetPlayerLife(saved, pl.lives, pl.regenQueue)
  /\ UNCHANGED <<livesNow, initResult>>
  /\ UNCHANGED <<baseVars, loadVars, batchVars, diamondVars, lateVars>>

\* What regenTick leaves: due entries are shifted, each giving a life
\* while lives < maxLives.
RECURSIVE RegenLoop(_)
RegenLoop(pl) ==
  IF Len(pl.regenQueue) > 0 /\ ~(livesNow < Head(pl.regenQueue))
    THEN RegenLoop([lives |-> IF pl.lives < PLAYER_MAX_LIVES THEN pl.lives + 1 ELSE pl.lives,
                    regenQueue |-> Tail(pl.regenQueue)])
    ELSE pl

\* PlayerUI.regenTick(), run by the system launchRegenSystem adds.
RegenTick(saved) ==
  /\ initResult # "none"
  /\ LET pl == RegenLoop(PlayerUI)
     IN /\ pl # PlayerUI
        /\ PlayerUI' = pl
        /\ remoteLives' = SetPlayerLife(saved, pl.lives, pl.regenQueue)
  /\ UNCHANGED <<livesNow, initResult>>
  /\ UNCHANGED <<baseVars, loadVars, batchVars, diamondVars, lateVars>>

\* The scene is left and loaded again: the module state is created anew.
Reload ==
  /\ initResult # "none"
  /\ PlayerUI' = PlayerFresh
  /\ initResult' = "none"
  /\ UNCHANGED <<remoteLives, livesNow>>
  /\ UNCHANGED <<baseVars, loadVars, batchVars, diamondVars, lateVars>>

\* One regeneration interval passes.
LivesTick ==
  /\ livesNow < MaxNow
  /\ livesNow' = livesNow + 1
  /\ UNCHANGED <<PlayerUI, remoteLives, initResult>>
  /\ UNCHANGED <<baseVars, loadVars, batchVars, diamondVars, lateVars>>

LivesInit == LeaseQuiet /\ WriteQuiet /\ CounterQuiet /\ UtilQuiet

LivesNext ==
  \/ \E resp \in {"ok", "fail"}, saved \in BOOLEAN : PlayerInit(resp, saved)
  \/ \E saved \in BOOLEAN : LoseLife(saved)
  \/ \E saved \in BOOLEAN : RegenTick(saved)
  \/ Reload
  \/ LivesTick

SpecLives == LivesInit /\ [][LivesNext]_vars

\* The stored regeneration entries whose due time has passed.
DueStored ==
  {i \in 1..Len(remoteLives.regenQueue) : remoteLives.regenQueue[i] < livesNow}

\* C27: when PlayerUI.init has loaded the stored record, lives is
\* min(maxLives, stored lives + number of stored entries already due).
C27_CatchUpOnReload ==
  [][(initResult = "none" /\ initResult' = "loaded") =>
       PlayerUI'.lives =
         Min2(PLAYER_MAX_LIVES, remoteLives.lives + Cardinality(DueStored))]_vars

\* ---------------------------------------------------------------------
\* Diamond life cycle (diamonds.ts, diamond-states-persistence,
\* simple-dropped-diamonds, diamond-carrying, death.ts)
\* ---------------------------------------------------------------------

\* Largest value of now.
MaxClock == 322

\* The dt of a frame, in seconds.
FrameSteps == {2, 10}

\* Largest number of sessions.
MaxSessions == 2

\* Largest number of steps whose PUTs fail.
MaxPutFailures == 1

\* Phase durations, in seconds.
EMERGE_TIME == 2

COLLECT_TIME == 300

DISAPPEAR_TIME == 1

RESPAWN_TIME == 10

DROP_TIMER == 30

HIDDEN_TIME == 5

\* SIMPLE_DROPPED_CONFIG
GRACE_PERIOD_COLLECT == 5

LIFETIME == 30

\* death.ts: teleportDelay and the invulnerability after a lost life;
\* ghosts.ts: playerHitCooldown after a hit.
TELEPORT_DELAY == 2

INVULNERABILITY_TIME == 2

HIT_COOLDOWN == 5

\* const carriedDiamondIndex = 1 (handlePlayerDeath)
carriedDiamondIndex == 1

\* checkDiamondCollection / checkSimpleDroppedCollection found nothing.
NoSlot == 0 - 1

\* The document saveDiamondState starts from when the key has none.
DefaultDoc(t) ==
  [present |-> TRUE, state |-> "available", collectedBy |-> "nobody",
   spawnPosition |-> "origin", spawnedAt |-> t, dropPosition |-> NoSite,
   droppedAt |-> NoTime]

\* { ...currentState, ...data }
Merge(currentState, data) ==
  [f \in DOMAIN currentState |-> IF f \in DOMAIN data THEN data[f] ELSE currentState[f]]

\* { ...currentState, ...data, state }
UpdatedState(currentState, data, state) == [Merge(currentState, data) EXCEPT !.state = state]

\* The module state the functions of a frame read and write, as one value.
World ==
  [st |-> diamondStates, tm |-> diamondTimers, cache |-> playerDiamondStates,
   remote |-> remoteDiamonds, carrying |-> isCarryingDiamond,
   drops |-> droppedDiamonds, timeouts |-> respawnTimeouts, sent |-> <<>>]

SetWorld(w, ok) ==
  /\ ok \/ w.sent = <<>> \/ putFailures < MaxPutFailures
  /\ putFailures' = IF ok \/ w.sent = <<>> THEN putFailures ELSE putFailures + 1
  /\ diamondStates' = w.st
  /\ diamondTimers' = w.tm
  /\ playerDiamondStates' = w.cache
  /\ remoteDiamonds' = w.remote
  /\ isCarryingDiamond' = w.carrying
  /\ droppedDiamonds' = w.drops
  /\ respawnTimeouts' = w.timeouts
  /\ puts' = w.sent

\* saveDiamondState(index, state, data) at time t in a session whose
\* currentPlayerId is set; ok is whether the PUT reaches the store.
SaveDiamondState(w, index, state, data, t, ok) ==
  LET currentState == IF w.cache[index].present THEN w.cache[index] ELSE DefaultDoc(t)
      updatedState == UpdatedState(currentState, data, state)
  IN [w EXCEPT !.cache[index] = updatedState,
               !.remote[index] = IF ok THEN updatedState ELSE @,
               !.sent = @ \o <<[index |-> index, state |-> state, fields |-> DOMAIN data,
                                body |-> updatedState, persisted |-> w.remote[index]]>>]

\* initPlayerDiamondStates(playerId) in a session that has not loaded yet:
\* the documents in memory are those the GET answers, none when it fails.
InitPlayerDiamondStates(w, resp) ==
  [w EXCEPT !.cache = IF resp = "ok" THEN w.remote ELSE [i \in DiamondIdx |-> NoDoc]]

\* The loop of createInitialDiamondsIfNeeded from slot i on.
RECURSIVE CreateInitialFrom(_, _, _, _)
CreateInitialFrom(w, i, t, ok) ==
  IF i = NumDiamonds THEN w
  ELSE CreateInitialFrom(
         SaveDiamondState(w, i, "emerging", [spawnPosition |-> "origin", spawnedAt |-> t],
                          t, ok), i + 1, t, ok)

\* createInitialDiamondsIfNeeded()
CreateInitialDiamondsIfNeeded(w, t, ok) ==
  IF \A i \in DiamondIdx : ~w.cache[i].present THEN CreateInitialFrom(w, 0, t, ok) ELSE w

\* const maxAge = 24 * 60 * 60 * 1000, in seconds
MAX_AGE == 86400

\* The loop of cleanupOldDiamondStates from slot i on.
RECURSIVE CleanupFrom(_, _, _, _)
CleanupFrom(w, i, t, ok) ==
  IF i = NumDiamonds THEN w
  ELSE CleanupFrom(
         IF w.cache[i].present /\ t - w.cache[i].spawnedAt > MAX_AGE
           THEN SaveDiamondState(w, i, "available",
                                 [spawnPosition |-> w.cache[i].spawnPosition,
                                  spawnedAt |-> t, collectedBy |-> "nobody",
                                  dropPosition |-> NoSite, droppedAt |-> NoTime], t, ok)
           ELSE w,
         i + 1, t, ok)

\* initDiamondStatesPersistence(playerId), the first step of a session.
InitDiamondStatesPersistence(resp, ok) ==
  /\ session.phase = "start"
  /\ LET loaded == InitPlayerDiamondStates(World, resp)
         created == CreateInitialDiamondsIfNeeded(loaded, now, ok)
     IN SetWorld(CleanupFrom(created, 0, now, ok), ok)
  /\ session' = [session EXCEPT !.phase = "loaded"]
  /\ UNCHANGED <<now, death, playerAt>>
  /\ UNCHANGED <<baseVars, loadVars, batchVars, playerVars, lateVars>>

\* The phases spawnDiamonds restores from a stored document.
Restored == {"emerging", "collectible", "disappearing", "hidden", "respawning", "dropped"}

\* diamondTimers[i] as spawnDiamonds sets it for a restored document.
ResumedTimer(doc, t, timer) ==
  LET timeSinceSpawn == t - (IF doc.spawnedAt = NoTime THEN t ELSE doc.spawnedAt)
  IN CASE doc.state = "collectible" -> Min2(timeSinceSpawn, COLLECT_TIME)
       [] doc.state = "emerging" -> Min2(timeSinceSpawn, EMERGE_TIME)
       [] doc.state = "disappearing" -> Min2(timeSinceSpawn, DISAPPEAR_TIME)
       [] doc.state = "dropped" ->
            IF doc.droppedAt # NoTime THEN Min2(t - doc.droppedAt, DROP_TIMER) ELSE timer
       [] OTHER -> 0

\* The body of the loop of spawnDiamonds for slot i.
SpawnOne(w, i, t, ok) ==
  LET persistedState == w.cache[i]
  IN IF persistedState.present /\ persistedState.spawnPosition # "origin"
       THEN IF persistedState.state \in Restored
              THEN [w EXCEPT
                      !.st[i] = persistedState.state,
                      !.tm[i] = ResumedTimer(persistedState, t, w.tm[i]),
                      !.drops[i] =
                        IF /\ persistedState.state = "dropped"
                           /\ persistedState.droppedAt # NoTime
                           /\ persistedState.dropPosition # NoSite
                           /\ ~w.drops[i].present
                          THEN [present |-> TRUE, position |-> persistedState.dropPosition,
                                createdAt |-> t]
                          ELSE @]
              ELSE [w EXCEPT !.st[i] = "emerging", !.tm[i] = 0]
       ELSE SaveDiamondState([w EXCEPT !.st[i] = "emerging", !.tm[i] = 0], i, "emerging",
                             [spawnPosition |-> "placed", spawnedAt |-> t], t, ok)

RECURSIVE SpawnFrom(_, _, _, _)
SpawnFrom(w, i, t, ok) ==
  IF i = NumDiamonds THEN w ELSE SpawnFrom(SpawnOne(w, i, t, ok), i + 1, t, ok)

\* spawnDiamonds(), called once the documents are loaded.
SpawnDiamonds(ok) ==
  /\ session.phase = "loaded"
  /\ SetWorld(SpawnFrom(World, 0, now, ok), ok)
  /\ session' = [session EXCEPT !.phase = "playing"]
  /\ UNCHANGED <<now, death, playerAt>>
  /\ UNCHANGED <<baseVars, loadVars, batchVars, playerVars, lateVars>>

\* forceSetDiamondState(diamondIndex, state)
ForceSetDiamondState(w, i, state) == [w EXCEPT !.st[i] = state, !.tm[i] = 0]

\* respawnDiamond(index): the slot is 'respawning' and the timeout is set.
RespawnDiamond(w, i) == [w EXCEPT !.st[i] = "respawning", !.timeouts[i] = RESPAWN_TIME]

\* The timer of a 'dropped' slot after dt more seconds.
DroppedTimer(timer, dt) == (IF timer > DROP_TIMER THEN 0 ELSE timer) + dt

\* The first switch of the diamond system for slot i.
FirstLoop(w, i, dt, t, ok) ==
  LET timer == w.tm[i] + dt
  IN CASE w.st[i] = "emerging" ->
            IF timer >= EMERGE_TIME
              THEN SaveDiamondState([w EXCEPT !.st[i] = "collectible", !.tm[i] = 0],
                                    i, "collectible", [spawnedAt |-> t], t, ok)
              ELSE [w EXCEPT !.tm[i] = timer]
       [] w.st[i] = "collectible" ->
            IF timer >= COLLECT_TIME
              THEN RespawnDiamond(
                     SaveDiamondState([w EXCEPT !.st[i] = "disappearing", !.tm[i] = 0],
                                      i, "disappearing", [spawnedAt |-> t], t, ok), i)
              ELSE [w EXCEPT !.tm[i] = timer]
       [] w.st[i] = "disappearing" ->
            IF timer >= DISAPPEAR_TIME
              THEN [w EXCEPT !.st[i] = "hidden", !.tm[i] = 0]
              ELSE [w EXCEPT !.tm[i] = timer]
       [] w.st[i] = "respawning" ->
            IF timer >= RESPAWN_TIME
              THEN [w EXCEPT !.st[i] = "hidden", !.tm[i] = 0]
              ELSE [w EXCEPT !.tm[i] = timer]
       [] w.st[i] = "dropped" ->
            IF DROP_TIMER - DroppedTimer(w.tm[i], dt) <= 0
              THEN SaveDiamondState(
                     [w EXCEPT !.st[i] = "respawning", !.tm[i] = 0, !.drops[i] = NoDrop],
                     i, "respawning", [spawnedAt |-> t], t, ok)
              ELSE [w EXCEPT !.tm[i] = DroppedTimer(w.tm[i], dt)]
       [] OTHER -> w

\* checkDiamondCollection(playerPos): the first collectible diamond within
\* collection distance, none while the player carries one.
CheckDiamondCollection(w) ==
  LET near == {i \in DiamondIdx : w.st[i] = "collectible" /\ playerAt = i}
  IN IF w.carrying \/ near = {} THEN NoSlot
     ELSE CHOOSE i \in near : \A k \in near : i <= k

\* collectDiamond(index)
CollectDiamond(w, i, t, ok) ==
  IF w.carrying THEN w
  ELSE LET cleared == [w EXCEPT !.drops[i] = NoDrop]
       IN IF cleared.st[i] = "carried" THEN cleared
          ELSE SaveDiamondState([cleared EXCEPT !.st[i] = "carried", !.carrying = TRUE],
                                i, "carried", [collectedBy |-> "player"], t, ok)

\* The second switch of the diamond system for slot i.
SecondLoop(w, i, dt, t, ok) ==
  CASE w.st[i] = "collectible" ->
         IF CheckDiamondCollection(w) = i THEN CollectDiamond(w, i, t, ok) ELSE w
    [] w.st[i] = "dropped" ->
         IF DROP_TIMER - DroppedTimer(w.tm[i], dt) > 0
           THEN [w EXCEPT !.tm[i] = DroppedTimer(w.tm[i], dt)]
           ELSE [w EXCEPT !.st[i] = "respawning", !.tm[i] = 0, !.drops[i] = NoDrop]
    [] w.st[i] = "available" -> [w EXCEPT !.st[i] = "emerging", !.tm[i] = 0]
    [] w.st[i] = "hidden" ->
         IF w.tm[i] + dt >= HIDDEN_TIME
           THEN [w EXCEPT !.st[i] = "emerging", !.tm[i] = 0]
           ELSE [w EXCEPT !.tm[i] = w.tm[i] + dt]
    [] OTHER -> w

RECURSIVE FirstLoopFrom(_, _, _, _, _)
FirstLoopFrom(w, i, dt, t, ok) ==
  IF i = NumDiamonds THEN w
  ELSE FirstLoopFrom(FirstLoop(w, i, dt, t, ok), i + 1, dt, t, ok)

RECURSIVE SecondLoopFrom(_, _, _, _, _)
SecondLoopFrom(w, i, dt, t, ok) ==
  IF i = NumDiamonds THEN w
  ELSE SecondLoopFrom(SecondLoop(w, i, dt, t, ok), i + 1, dt, t, ok)

\* checkSimpleDroppedCollection(playerPos)
CheckSimpleDroppedCollection(w, t) ==
  LET near == {i \in DiamondIdx :
                 /\ w.drops[i].present
                 /\ t - w.drops[i].createdAt >= GRACE_PERIOD_COLLECT
                 /\ w.drops[i].position = playerAt}
  IN IF death.playerInvulnerable \/ near = {} THEN NoSlot
     ELSE CHOOSE i \in near : \A k \in near : i <= k

\* updateSimpleDroppedDiamonds(dt): expired dropped entities are removed.
UpdateSimpleDroppedDiamonds(w, t) ==
  [w EXCEPT !.drops =
     [i \in DiamondIdx |->
        IF w.drops[i].present /\ t - w.drops[i].createdAt >= LIFETIME
          THEN NoDrop ELSE w.drops[i]]]

\* The end of the diamond system: a dropped diamond near the player is
\* picked up, then the dropped entities are updated.
DroppedPickup(w, t, ok) ==
  LET droppedIndex == CheckSimpleDroppedCollection(w, t)
  IN IF droppedIndex # NoSlot /\ ~death.playerInvulnerable
       THEN IF w.carrying THEN w
            ELSE LET saved == SaveDiamondState(w, droppedIndex, "carried",
                                [collectedBy |-> "player", dropPosition |-> NoSite,
                                 droppedAt |-> NoTime], t, ok)
                     taken == [saved EXCEPT !.drops[droppedIndex] = NoDrop]
                     forced == ForceSetDiamondState(taken, droppedIndex, "carried")
                 IN UpdateSimpleDroppedDiamonds([forced EXCEPT !.carrying = TRUE], t)
       ELSE UpdateSimpleDroppedDiamonds(w, t)

\* What a frame of dt seconds leaves of the timers of a death.
DeathAfter(dt) ==
  [death EXCEPT
     !.teleportTimer = IF death.isHandlingDeath THEN @ + dt ELSE @,
     !.invulnerabilityTimer = IF death.playerInvulnerable THEN @ + dt ELSE @,
     !.playerHitCooldown = Max2(0, @ - dt)]

\* A timeout or a system of a death has its time and has not run yet.
CallbackDue ==
  \/ \E i \in DiamondIdx : respawnTimeouts[i] = 0
  \/ death.isHandlingDeath /\ death.teleportTimer >= TELEPORT_DELAY
  \/ death.playerInvulnerable /\ death.invulnerabilityTimer >= INVULNERABILITY_TIME

\* One frame of the diamond system, dt seconds after the last one.
Frame(dt, ok) ==
  /\ session.phase = "playing"
  /\ ~CallbackDue
  /\ now + dt <= MaxClock
  /\ LET t == now + dt
         ticked == [World EXCEPT
                      !.timeouts = [i \in DiamondIdx |->
                                      IF respawnTimeouts[i] = NoTimeout THEN NoTimeout
                                      ELSE Max2(0, respawnTimeouts[i] - dt)]]
         first == FirstLoopFrom(ticked, 0, dt, t, ok)
         second == SecondLoopFrom(first, 0, dt, t, ok)
     IN /\ SetWorld(DroppedPickup(second, t, ok), ok)
        /\ now' = t
  /\ death' = DeathAfter(dt)
  /\ UNCHANGED <<session, playerAt>>
  /\ UNCHANGED <<baseVars, loadVars, batchVars, playerVars, lateVars>>

\* The callback of the timeout respawnDiamond(i) set.
RespawnTimeout(i, ok) ==
  /\ session.phase = "playing"
  /\ respawnTimeouts[i] = 0
  /\ LET saved == SaveDiamondState(World, i, "emerging",
                                   [spawnPosition |-> "placed", spawnedAt |-> now], now, ok)
     IN SetWorld([saved EXCEPT !.st[i] = "emerging", !.tm[i] = 0,
                               !.timeouts[i] = NoTimeout], ok)
  /\ UNCHANGED <<now, session, death, playerAt>>
  /\ UNCHANGED <<baseVars, loadVars, batchVars, playerVars, lateVars>>

\* A ghost touches the player outside the safe zones: loseLife(), then
\* forceDeathDetection() and the death detection of the next frame.
GhostHit(ok) ==
  /\ session.phase = "playing"
  /\ initResult # "none"
  /\ playerAt # Center
  /\ death.playerHitCooldown = 0
  /\ LET lifeLost == PlayerUI.lives > 0
         pl == [lives |-> PlayerUI.lives - 1,
                regenQueue |-> Append(PlayerUI.regenQueue, livesNow + LIFE_REGEN)]
         released == [World EXCEPT !.carrying = FALSE,
                                   !.drops[carriedDiamondIndex] =
                                      IF @.present THEN @
                                      ELSE [present |-> TRUE, position |-> playerAt,
                                            createdAt |-> now]]
         dropped == SaveDiamondState(
                      ForceSetDiamondState(released, carriedDiamondIndex, "dropped"),
                      carriedDiamondIndex, "dropped",
                      [droppedAt |-> now, dropPosition |-> playerAt,
                       collectedBy |-> "nobody"], now, ok)
     IN /\ PlayerUI' = IF lifeLost THEN pl ELSE PlayerUI
        /\ remoteLives' = IF lifeLost THEN SetPlayerLife(ok, pl.lives, pl.regenQueue)
                          ELSE remoteLives
        /\ IF death.isHandlingDeath
             THEN /\ puts' = <<>>
                  /\ UNCHANGED <<diamondStates, diamondTimers, playerDiamondStates,
                                 remoteDiamonds, isCarryingDiamond, droppedDiamonds,
                                 respawnTimeouts, putFailures>>
             ELSE SetWorld(IF isCarryingDiamond THEN dropped ELSE World, ok)
        /\ death' = [isHandlingDeath |-> TRUE,
                     teleportTimer |-> IF death.isHandlingDeath THEN death.teleportTimer ELSE 0,
                     playerInvulnerable |-> death.playerInvulnerable \/ lifeLost,
                     invulnerabilityTimer |->
                       IF death.playerInvulnerable THEN death.invulnerabilityTimer ELSE 0,
                     playerHitCooldown |-> HIT_COOLDOWN]
  /\ UNCHANGED <<now, session, playerAt, livesNow, initResult>>
  /\ UNCHANGED <<baseVars, loadVars, batchVars, lateVars>>

\* The teleport system of handlePlayerDeath after teleportDelay.
DeathTeleport ==
  /\ death.isHandlingDeath
  /\ death.teleportTimer >= TELEPORT_DELAY
  /\ playerAt' = Center
  /\ death' = [death EXCEPT !.isHandlingDeath = FALSE, !.teleportTimer = 0,
                            !.playerInvulnerable = FALSE, !.invulnerabilityTimer = 0]
  /\ UNCHANGED <<now, diamondStates, diamondTimers, playerDiamondStates, remoteDiamonds,
                 session, isCarryingDiamond, droppedDiamonds, respawnTimeouts, putFailures>>
  /\ puts' = <<>>
  /\ UNCHANGED <<baseVars, loadVars, batchVars, playerVars, lateVars>>

\* The invulnerability system of checkForPlayerDeath after 2 seconds.
InvulnerabilityEnds ==
  /\ death.playerInvulnerable
  /\ death.invulnerabilityTimer >= INVULNERABILITY_TIME
  /\ death' = [death EXCEPT !.playerInvulnerable = FALSE, !.invulnerabilityTimer = 0]
  /\ UNCHANGED <<now, diamondStates, diamondTimers, playerDiamondStates, remoteDiamonds,
                 session, isCarryingDiamond, droppedDiamonds, respawnTimeouts, playerAt,
                 putFailures>>
  /\ puts' = <<>>
  /\ UNCHANGED <<baseVars, loadVars, batchVars, playerVars, lateVars>>

\* The player walks to another place; movement is frozen while a death is
\* handled, and with no life left the player is kept in the central zone.
MovePlayer(to) ==
  /\ session.phase = "playing"
  /\ ~death.isHandlingDeath
  /\ to # playerAt
  /\ PlayerUI.lives > 0 \/ to = Center
  /\ playerAt' = to
  /\ UNCHANGED <<now, diamondStates, diamondTimers, playerDiamondStates, remoteDiamonds,
                 session, isCarryingDiamond, droppedDiamonds, respawnTimeouts, death,
                 putFailures>>
  /\ puts' = <<>>
  /\ UNCHANGED <<baseVars, loadVars, batchVars, playerVars, lateVars>>

\* The scene is left and loaded again: every module's state is created
\* anew, the store keeps what it has.
Reconnect ==
  /\ session.phase = "playing"
  /\ session.number < MaxSessions
  /\ diamondStates' = [i \in DiamondIdx |-> "hidden"]
  /\ diamondTimers' = [i \in DiamondIdx |-> 0]
  /\ playerDiamondStates' = [i \in DiamondIdx |-> NoDoc]
  /\ session' = [phase |-> "start", number |-> session.number + 1]
  /\ isCarryingDiamond' = FALSE
  /\ droppedDiamonds' = [i \in DiamondIdx |-> NoDrop]
  /\ respawnTimeouts' = [i \in DiamondIdx |-> NoTimeout]
  /\ death' = DeathNone
  /\ playerAt' = Center
  /\ puts' = <<>>
  /\ PlayerUI' = PlayerFresh
  /\ initResult' = "none"
  /\ UNCHANGED <<now, remoteDiamonds, putFailures, remoteLives, livesNow>>
  /\ UNCHANGED <<baseVars, loadVars, batchVars, lateVars>>

\* A stored record of a player on the last life.
LastLife == LifeRecord(1, <<1, 1, 1, 1>>)

\* A document an earlier session stored: collectible since the second 2.
OldCollectible ==
  [present |-> TRUE, state |-> "collectible", collectedBy |-> "nobody",
   spawnPosition |-> "placed", spawnedAt |-> 2, dropPosition |-> NoSite,
   droppedAt |-> NoTime]

\* A document an earlier session stored: dropped two seconds before this
\* session starts, at the place of diamond 0.
OldDropped ==
  [present |-> TRUE, state |-> "dropped", collectedBy |-> "nobody",
   spawnPosition |-> "placed", spawnedAt |-> 2, dropPosition |-> 0,
   droppedAt |-> SessionStart - 2]

\* Everything but the store of the diamond documents and of the lives.
DiamondBase ==
  /\ LeaseQuiet /\ WriteQuiet /\ CounterQuiet /\ LateQuiet
  /\ primaryOf = [a \in Subjects |-> PrimaryIdle]
  /\ acquired = [a \in Subjects |-> "none"]
  /\ lockTimers = {}
  /\ rb = RbIdle
  /\ ld = LdIdle
  /\ patched = [p \in Procs |-> NoPatches]
  /\ PlayerUI = PlayerFresh
  /\ livesNow = 0
  /\ initResult = "none"
  /\ DiamondsFresh
  /\ now = SessionStart
  /\ putFailures = 0

\* One session of play of a player on the last life.
CarryInit ==
  /\ DiamondBase
  /\ remoteLives = LastLife
  /\ remoteDiamonds \in {[i \in DiamondIdx |-> NoDoc], [i \in DiamondIdx |-> OldCollectible]}

CarryNext ==
  \/ \E resp \in {"ok", "fail"}, ok \in BOOLEAN : InitDiamondStatesPersistence(resp, ok)
  \/ \E ok \in BOOLEAN : SpawnDiamonds(ok)
  \/ \E dt \in FrameSteps, ok \in BOOLEAN : Frame(dt, ok)
  \/ \E i \in DiamondIdx, ok \in BOOLEAN : RespawnTimeout(i, ok)
  \/ \E ok \in BOOLEAN : GhostHit(ok)
  \/ DeathTeleport
  \/ InvulnerabilityEnds
  \/ \E to \in Sites : MovePlayer(to)
  \/ PlayerInit("ok", TRUE)

SpecCarry == CarryInit /\ [][CarryNext]_vars

\* Sessions of a player who stays in the central zone.
ResumeInit ==
  /\ DiamondBase
  /\ remoteLives = NoRecord
  /\ remoteDiamonds \in {[i \in DiamondIdx |-> NoDoc], [i \in DiamondIdx |-> OldCollectible],
                         [i \in DiamondIdx |-> OldDropped]}

ResumeNext ==
  \/ \E resp \in {"ok", "fail"}, ok \in BOOLEAN : InitDiamondStatesPersistence(resp, ok)
  \/ \E ok \in BOOLEAN : SpawnDiamonds(ok)
  \/ \E dt \in FrameSteps, ok \in BOOLEAN : Frame(dt, ok)
  \/ \E i \in DiamondIdx, ok \in BOOLEAN : RespawnTimeout(i, ok)
  \/ Reconnect

SpecResume == ResumeInit /\ [][ResumeNext]_vars

\* C23: the document a saveDiamondState call PUTs has the state asked for
\* and, in every field the call does not name, the value of the document
\* stored under the key when the call is made (of the default when none
\* is stored).
C23_SaveKeepsPersistedFields ==
  \A k \in 1..Len(puts) :
    LET put == puts[k]
        current == IF put.persisted.present THEN put.persisted ELSE DefaultDoc(now)
    IN /\ put.body.state = put.state
       /\ \A f \in DOMAIN put.body \ (put.fields \cup {"state"}) :
            put.body[f] = current[f]

\* The phases that last a fixed time, and the time each lasts.
TimedPhases == {"emerging", "collectible", "disappearing", "respawning", "dropped"}

Duration(phase) ==
  CASE phase = "emerging" -> EMERGE_TIME
    [] phase = "collectible" -> COLLECT_TIME
    [] phase = "disappearing" -> DISAPPEAR_TIME
    [] phase = "respawning" -> RESPAWN_TIME
    [] phase = "dropped" -> DROP_TIMER

\* The timestamp a document keeps of the start of its phase.
PhaseStart(doc) == IF doc.state = "dropped" THEN doc.droppedAt ELSE doc.spawnedAt

\* The slots whose loaded document is in a timed phase with its start.
Resumable ==
  {i \in DiamondIdx :
     /\ playerDiamondStates[i].present
     /\ playerDiamondStates[i] = remoteDiamonds[i]
     /\ playerDiamondStates[i].spawnPosition # "origin"
     /\ playerDiamondStates[i].state \in TimedPhases
     /\ PhaseStart(playerDiamondStates[i]) # NoTime}

\* C24: a session that loads a document saved in a timed phase S with the
\* start t0 resumes, at the time t0 + D, in phase S with the elapsed time
\* D (at most the duration of S) and the remaining time
\* max(0, duration(S) - D).
C24_ResumeFromTimestamp ==
  [][(session.phase = "loaded" /\ session'.phase = "playing") =>
       \A i \in Resumable :
         LET doc == playerDiamondStates[i]
             delta == now - PhaseStart(doc)
         IN /\ diamondStates'[i] = doc.state
            /\ diamondTimers'[i] = Min2(delta, Duration(doc.state))
            /\ Duration(doc.state) - diamondTimers'[i] = Max2(0, Duration(doc.state) - delta)]_vars

\* C28: no slot is moved to 'carried', and its diamond attached to the
\* player, while PlayerUI.lives is 0.
C28_NoCollectionWithoutLives ==
  [][\A i \in DiamondIdx :
       (diamondStates[i] # "carried" /\ diamondStates'[i] = "carried") =>
         PlayerUI'.lives > 0]_vars

\* C29: at no moment is more than one slot in state 'carried'.
C29_AtMostOneCarried ==
  Cardinality({i \in DiamondIdx : diamondStates[i] = "carried"}) <= 1

\* ========================================================================
\* Who calls becomeLeader(): the start-up of a persistence module
\* (ghost-positions-persistence.ts, ghost-states-persistence.ts)
\* ========================================================================
\* initializeGhostPersistence() / initializeGhostStatesPersistence():
\* if (isInitialized) return; isInitialized = true; await becomeLeader().
InitializeGhostPersistence(p) ==
  /\ running[p]
  /\ ~isInitialized[p]
  /\ isInitialized' = [isInitialized EXCEPT ![p] = TRUE]
  /\ UNCHANGED <<running, tokenRead, cacheVars, chestVars>>
  /\ BecomeLeaderCallFrom(p)

\* checkLeaderStatus(): if (!isLeader && !isInitialized) { isInitialized =
\* true; becomeLeader(); } return isLeader.  A call that fails the test
\* changes nothing.
CheckLeaderStatus(p) ==
  /\ running[p]
  /\ ~isLeader[p] /\ ~isInitialized[p]
  /\ isInitialized' = [isInitialized EXCEPT ![p] = TRUE]
  /\ UNCHANGED <<running, tokenRead, cacheVars, chestVars>>
  /\ BecomeLeaderCallFrom(p)

\* The process of a player exits (the scene is closed): its calls in
\* progress never continue, its module state is gone.  A PUT of the token
\* that was in flight may or may not have reached the store.  One process
\* exits in a behaviour, the other keeps running.
ProcessExits(p, landed) ==
  /\ \A q \in Procs : running[q]
  /\ running' = [running EXCEPT ![p] = FALSE]
  /\ token' = IF landed /\ acq[p].pc = "put" THEN Token(acq[p].putAge, p)
              ELSE IF landed /\ ren[p].pc = "put" THEN Token(ren[p].putAge, p)
              ELSE token
  /\ acq' = [acq EXCEPT ![p] = AcqIdle]
  /\ ren' = [ren EXCEPT ![p] = RenIdle]
  /\ sav' = [sav EXCEPT ![p] = SavIdle]
  /\ isLeader' = [isLeader EXCEPT ![p] = FALSE]
  /\ UNCHANGED <<module, leaderCheckAge, becomeResult, saveResult, isInitialized, tokenRead,
                 cacheVars, chestVars>>
  /\ UNCHANGED <<writeVars, counterVars, primaryOf, acquired, lockTimers, rb,
                 loadVars, batchVars, playerVars, diamondVars>>

ElectInit == PublishInit

\* The backend answers every request of this specification: what is asked
\* is whether a running process tries again, not whether a try succeeds.
ElectNext ==
  \/ \E p \in Procs : InitializeGhostPersistence(p)
  \/ \E p \in Procs : CheckLeaderStatus(p)
  \/ \E p \in Procs : running[p] /\ BecomeLeaderGetDone(p, "ok")
  \/ \E p \in Procs : running[p] /\ BecomeLeaderPutDone(p, "ok")
  \/ \E p \in Procs : running[p] /\ CheckAndRenewLeadership(p)
  \/ \E p \in Procs : running[p] /\ RenewPutDone(p, "ok")
  \/ \E p \in Procs, landed \in BOOLEAN : ProcessExits(p, landed)
  \/ Tick

SpecElect == ElectInit /\ [][ElectNext]_vars

\* The scheduling the code has: time passes, every fetch of a running
\* process settles, the per-frame loop of a running process keeps calling
\* checkLeaderStatus and checkAndRenewLeadership.
FairSpecElect ==
  /\ SpecElect
  /\ WF_vars(Tick)
  /\ \A p \in Procs : WF_vars(CheckLeaderStatus(p))
  /\ \A p \in Procs : WF_vars(running[p] /\ BecomeLeaderGetDone(p, "ok"))
  /\ \A p \in Procs : WF_vars(running[p] /\ BecomeLeaderPutDone(p, "ok"))
  /\ \A p \in Procs : WF_vars(running[p] /\ CheckAndRenewLeadership(p))
  /\ \A p \in Procs : WF_vars(running[p] /\ RenewPutDone(p, "ok"))

\* C31: when a process has exited and another keeps running, eventually a
\* running process is leader (it has tried again after the lease expired,
\* and publishing resumes).
C31_LeadershipReestablished ==
  ((\E p \in Procs : ~running[p]) /\ (\E q \in Procs : running[q]))
    ~> (\E q \in Procs : running[q] /\ isLeader[q])

\* ------------------------------------------------------------------------
\* Acquisition, with the answers to the token reads kept
\* ------------------------------------------------------------------------
AcquireNext ==
  \/ \E p \in Procs : BecomeLeaderCall(p)
  \/ \E p \in Procs, resp \in Responses : BecomeLeaderGetDoneSeen(p, resp)
  \/ \E p \in Procs, resp \in Responses : BecomeLeaderPutDone(p, resp)
  \/ \E p \in Procs : CheckAndRenewLeadership(p)
  \/ \E p \in Procs, resp \in Responses : RenewPutDone(p, resp)
  \/ Tick

SpecAcquire == PublishInit /\ [][AcquireNext]_vars

\* C32: an attempt whose read of the token was answered with a non-success
\* status is a failed attempt: it sends no PUT of a token (and so leaves
\* isLeader false).
C32_UnreadableTokenFailsAttempt ==
  \A p \in Procs : acq[p].pc = "put" => tokenRead[p] # "notok"

\* ========================================================================
\* The documents in memory and at the backend, request by request
\* (diamond-states-persistence: saveDiamondState, initPlayerDiamondStates,
\* reloadPlayerDiamondStates, syncDiamondStates)
\* ========================================================================
MaxInFlight == 2         \* PUTs of diamond documents in flight at once

\* The keys saved in a behaviour: the claims are about the calls for one key.
SavedKeys == {0}

\* The saves of the game: (state, data) of saveDiamondState(index, state, data).
SaveInputs ==
  <<[state |-> "collectible", data |-> [spawnedAt |-> now]],
    [state |-> "carried", data |-> [collectedBy |-> "player"]]>>

\* saveDiamondState(index, state, data) up to its await: the document in
\* memory is replaced and the PUT of the whole document is sent.  The call
\* needs currentPlayerId, which initPlayerDiamondStates sets when it starts.
SaveDiamondStateCall(index, k) ==
  /\ session.phase = "loaded" \/ loadCall.pc # "idle"
  /\ Cardinality(putsInFlight) < MaxInFlight
  /\ LET w == SaveDiamondState(World, index, SaveInputs[k].state, SaveInputs[k].data,
                               now, FALSE)
         put == [index |-> index, body |-> w.cache[index]]
     IN /\ put \notin putsInFlight
        /\ playerDiamondStates' = w.cache
        /\ putsInFlight' = putsInFlight \cup {put}
  /\ loadCall' = IF loadCall.pc = "idle" THEN loadCall
                 ELSE [loadCall EXCEPT !.savedSince = @ \cup {index}]
  /\ UNCHANGED <<now, diamondStates, diamondTimers, remoteDiamonds, session,
                 isCarryingDiamond, droppedDiamonds, respawnTimeouts, death, playerAt,
                 puts, putFailures>>
  /\ UNCHANGED <<baseVars, loadVars, batchVars, playerVars, electVars, chestVars>>

\* The PUT settles: the store holds the document sent (whole-document
\* replace) when it is accepted; the document in memory is left as it is
\* either way (return response.ok / return false).
SaveDiamondStatePutDone(put, ok) ==
  /\ put \in putsInFlight
  /\ putsInFlight' = putsInFlight \ {put}
  /\ remoteDiamonds' = IF ok THEN [remoteDiamonds EXCEPT ![put.index] = put.body]
                       ELSE remoteDiamonds
  /\ UNCHANGED <<now, diamondStates, diamondTimers, playerDiamondStates, session,
                 isCarryingDiamond, droppedDiamonds, respawnTimeouts, death, playerAt,
                 puts, putFailures, loadCall>>
  /\ UNCHANGED <<baseVars, loadVars, batchVars, playerVars, electVars, chestVars>>

\* initPlayerDiamondStates (the first load of a session),
\* reloadPlayerDiamondStates (playerDiamondStatesLoaded = false, then the
\* same load) or syncDiamondStates sends the GET of the player's documents.
LoadCallStart(kind) ==
  /\ loadCall.pc = "idle"
  /\ IF session.phase = "start" THEN kind = "init" ELSE kind \in {"reload", "sync"}
  /\ loadCall' = [pc |-> "sent", kind |-> kind, savedSince |-> {}]
  /\ UNCHANGED <<diamondVars, putsInFlight>>
  /\ UNCHANGED <<baseVars, loadVars, batchVars, playerVars, electVars, chestVars>>

\* The documents a load leaves in memory, the GET answered with data:
\* playerDiamondStates = data || {} (init, reload), or
\* playerDiamondStates[key] = state for every key of data (sync).
Loaded(kind, cache, data) ==
  IF kind = "sync" THEN [i \in DiamondIdx |-> IF data[i].present THEN data[i] ELSE cache[i]]
  ELSE data

\* The GET is answered with the documents the store holds then, and the
\* load assigns them.
LoadCallDone ==
  /\ loadCall.pc = "sent"
  /\ playerDiamondStates' = Loaded(loadCall.kind, playerDiamondStates, remoteDiamonds)
  /\ session' = [session EXCEPT !.phase = "loaded"]
  /\ loadCall' = LoadIdle
  /\ UNCHANGED <<now, diamondStates, diamondTimers, remoteDiamonds, isCarryingDiamond,
                 droppedDiamonds, respawnTimeouts, death, playerAt, puts, putFailures,
                 putsInFlight>>
  /\ UNCHANGED <<baseVars, loadVars, batchVars, playerVars, electVars, chestVars>>

CacheInit ==
  /\ DiamondBase
  /\ remoteLives = NoRecord
  /\ remoteDiamonds \in {[i \in DiamondIdx |-> NoDoc], [i \in DiamondIdx |-> OldCollectible]}

CacheNext ==
  \/ \E i \in SavedKeys, k \in DOMAIN SaveInputs : SaveDiamondStateCall(i, k)
  \/ \E put \in putsInFlight, ok \in BOOLEAN : SaveDiamondStatePutDone(put, ok)
  \/ \E kind \in {"init", "reload", "sync"} : LoadCallStart(kind)
  \/ LoadCallDone

SpecCache == CacheInit /\ [][CacheNext]_vars

SaveInFlight(i) == \E put \in putsInFlight : put.index = i

\* C33: in a session that has loaded its documents, whenever no
\* saveDiamondState call for a key is in flight, getDiamondState(key) is the
\* document the store holds for the key.
C33_SnapshotIsPersisted ==
  session.phase = "loaded" =>
    \A i \in DiamondIdx : ~SaveInFlight(i) => playerDiamondStates[i] = remoteDiamonds[i]

\* C34: a load that completes leaves every document that saveDiamondState
\* has written in memory since the load's GET was sent as it is.
C34_LoadKeepsNewerEntry ==
  [][(loadCall.pc = "sent" /\ loadCall'.pc = "idle") =>
       \A i \in loadCall.savedSince : playerDiamondStates'[i] = playerDiamondStates[i]]_vars

\* ========================================================================
\* Validation at the chest (simple-diamond-validation.ts: validateDiamond)
\* ========================================================================
maxRetries == 3          \* const maxRetries = 3
RETRY_WAIT == 500        \* setTimeout(..., 500), in milliseconds

\* savePlayerDiamondsDirect(address, name, diamonds) with its PUT accepted
\* or not: a failure is caught inside the function, which saves locally
\* and returns false; the promise it returns never rejects.
DirectThrows(ok) == FALSE

\* The retry loop of validateDiamond:
\*   while (!firebaseSaveSuccess && retryCount < maxRetries) {
\*     try { await savePlayerDiamondsDirect(...); firebaseSaveSuccess = true }
\*     catch { retryCount++; if (retryCount < maxRetries) await 500 ms } }
\* from retryCount on, every PUT having the outcome ok: the calls made and
\* the time waited between them.
RECURSIVE RetryLoop(_, _, _)
RetryLoop(retryCount, v, ok) ==
  IF retryCount >= maxRetries THEN v
  ELSE LET called == [v EXCEPT !.calls = @ + 1, !.saved = ok]
       IN IF ~DirectThrows(ok) THEN called
          ELSE RetryLoop(retryCount + 1,
                         IF retryCount + 1 < maxRetries
                           THEN [called EXCEPT !.waits = @ + RETRY_WAIT] ELSE called, ok)

\* The player enters the chest's zone, in the safe centre, with a diamond
\* attached: the counter and the UI are raised, every attached diamond is
\* detached and the carrying state reset, slot 0 is saved as 'collected'
\* ("index générique (0)"), and the counter is saved.
ValidateDiamond(ok) ==
  /\ session.phase = "playing"
  /\ playerAt = Center
  /\ isCarryingDiamond
  /\ diamondsCollected < MaxDiamonds
  /\ diamondsCollected' = diamondsCollected + 1
  /\ SetWorld(SaveDiamondState([World EXCEPT !.carrying = FALSE], 0, "collected",
                               [collectedBy |-> "player"], now, ok), ok)
  /\ validation' = RetryLoop(0, NoValidation, ok)
  /\ store' = IF ok THEN [store EXCEPT !["primary"] = diamondsCollected + 1] ELSE store
  /\ localDiamondStorage' = diamondsCollected + 1
  /\ UNCHANGED <<now, session, death, playerAt>>
  /\ UNCHANGED <<down, outages, writeMutex, calls, failedSavesQueue, isProcessingQueue,
                 procIdx, procAge, timerArmed, timerDue, written, overlapped, maxReturned,
                 lastRetry, aborted, writeResult>>
  /\ UNCHANGED <<leaseVars, verify, integ, initPhase, primaryOf, acquired, lockTimers, rb,
                 loadVars, batchVars, playerVars, electVars, cacheVars>>

\* One session of a player who collects, validates and dies; every request
\* is answered.
ChestInit ==
  /\ DiamondBase
  /\ remoteLives = LastLife
  /\ remoteDiamonds = [i \in DiamondIdx |-> OldCollectible]

ChestNext ==
  \/ InitDiamondStatesPersistence("ok", TRUE)
  \/ SpawnDiamonds(TRUE)
  \/ \E dt \in FrameSteps : Frame(dt, TRUE)
  \/ \E i \in DiamondIdx : RespawnTimeout(i, TRUE)
  \/ GhostHit(TRUE)
  \/ DeathTeleport
  \/ InvulnerabilityEnds
  \/ \E to \in Sites : MovePlayer(to)
  \/ PlayerInit("ok", TRUE)
  \/ \E ok \in BOOLEAN : ValidateDiamond(ok)

SpecChest == ChestInit /\ [][ChestNext]_vars

\* The scheduling the code has: the diamond system runs every frame, the
\* timeouts and the systems of the death handler fire.
\* Weak fairness of the frame, WF_vars(\E dt \in FrameSteps : Frame(dt, TRUE)),
\* written with the frame's guard: a frame can be taken exactly when
\* FrameEnabled holds, and the frames are the steps that change now.
FrameEnabled ==
  /\ session.phase = "playing"
  /\ ~CallbackDue
  /\ \E dt \in FrameSteps : now + dt <= MaxClock

FrameFairness == []<>(~FrameEnabled) \/ []<><<now' # now>>_vars

FairSpecChest ==
  /\ SpecChest
  /\ FrameFairness
  /\ \A i \in DiamondIdx : WF_vars(RespawnTimeout(i, TRUE))
  /\ WF_vars(DeathTeleport)
  /\ WF_vars(InvulnerabilityEnds)

C38_FailedSaveIsRetried ==
  (validation.calls > 0 /\ ~validation.saved) =>
    /\ validation.calls >= maxRetries
    /\ validation.waits = (validation.calls - 1) * RETRY_WAIT

\* ========================================================================
\* Creation of the initial documents (createInitialDiamondsIfNeeded)
\* ========================================================================
\* A PUT of createInitialDiamondsIfNeeded: saveDiamondState(i, 'emerging',
\* {spawnPosition: Vector3.create(0, 0, 0), spawnedAt, ...}).
IsInitialPut(put) ==
  /\ put.state = "emerging"
  /\ "spawnPosition" \in put.fields
  /\ put.body.spawnPosition = "origin"

\* C36: initDiamondStatesPersistence sends the PUTs of the initial
\* documents only when the store holds no document of the player; for a
\* slot whose document the store holds no initial document is sent,
\* whatever answer the load of the documents gets.
C36_CreationOnlyWithoutDocuments ==
  [][(session.phase = "start" /\ session'.phase = "loaded") =>
       \A i \in DiamondIdx :
         remoteDiamonds[i].present =>
           \A k \in 1..Len(puts') : puts'[k].index = i => ~IsInitialPut(puts'[k])]_vars

\* ========================================================================
\* Failed batches of a save of the positions
\* ========================================================================
\* C37: a save of the positions leaves its loop only after its last batch
\* was sent, whatever the outcome of each PATCH: a non-ok status and a
\* rejected request alike are followed by the next batch.
C37_FailedBatchDoesNotStopSave ==
  [][\A p \in Procs :
       (sav[p].pc = "patch" /\ sav'[p].pc = "idle") =>
         /\ sav[p].batchIndex + 1 = CeilDiv(sav[p].n, BATCH_SIZE)
         /\ Len(patched'[p].ranges) = CeilDiv(sav[p].n, BATCH_SIZE)]_vars

\* ========================================================================
\* Regeneration of lost lives
\* ========================================================================
\* The lives missing from maxLives.
MissingLives == PLAYER_MAX_LIVES - PlayerUI.lives

\* C39: in a session whose PlayerUI.init has run, the regeneration queue
\* holds an entry for every missing life (so that regenTick, given time
\* and no further loss, brings lives back to maxLives).
C39_QueueCoversMissingLives ==
  initResult # "none" => Len(PlayerUI.regenQueue) >= MissingLives

\* ========================================================================
\* Duration of the 'dropped' phase
\* ========================================================================
\* The time the diamond of slot i was dropped at, as handlePlayerDeath
\* recorded it (droppedAt: Date.now()).
DroppedSince(i) == playerDiamondStates[i].droppedAt

\* C40: a slot the diamond system moves from 'dropped' to 'respawning' has
\* been 'dropped' for DROP_TIMER seconds of frames (now advances by the
\* frame deltas only).
C40_DroppedLastsThirtySeconds ==
  [][\A i \in DiamondIdx :
       (/\ diamondStates[i] = "dropped"
        /\ diamondStates'[i] = "respawning"
        /\ playerDiamondStates[i].state = "dropped"
        /\ DroppedSince(i) # NoTime) =>
         now' - DroppedSince(i) >= DROP_TIMER]_vars

=============================================================================
